---- MODULE Spec2Model ----
(***************************************************************************)
(* Cards inventory (FastAPI + SQLModel on SQLite): the catalog store, the  *)
(* duplicate resolver, the item routes, the CSV import and the listing     *)
(* page, as a state machine.                                               *)
(*                                                                         *)
(* Text is a sequence of tokens; a token is one character ("a", "A", " ",  *)
(* and "U+00E9" / "U+00C9" for the letters e-acute and E-acute) or a run   *)
(* of characters never taken apart ("Common", "nombre").  Python's None is *)
(* the value None below.                                                   *)
(***************************************************************************)
EXTENDS Integers, Sequences, FiniteSets, TLC

VARIABLES items, tags, links, resp, imp, pending, media, file

vars == <<items, tags, links, resp, imp, pending, media, file>>

-----------------------------------------------------------------------------
(* Bounds of the model.                                                    *)

\* Largest item id the model lets the store hand out.
MaxId == 2
\* Largest stored quantity the model lets merge-add / import reach.
MaxQty == 4
\* Largest number of data rows of an imported file.
MaxRows == 3
\* Requests in flight at once.
MaxPending == 2
\* Largest tag id.
MaxTagId == 2

-----------------------------------------------------------------------------
(* Text.                                                                   *)

None == <<"None">>

IsNone(v) == v = None

\* Python: `s or ""` for an Optional[str].
OrEmpty(s) == IF IsNone(s) \/ s = <<>> THEN <<>> ELSE s

\* SQL: coalesce(col, '').
Coalesce(s) == IF IsNone(s) THEN <<>> ELSE s

IsSpace(c) == c = " "

\* The 26 ASCII capital letters with their small letters.
AsciiFold ==
    ("A" :> "a") @@ ("B" :> "b") @@ ("C" :> "c") @@ ("D" :> "d") @@ ("E" :> "e")
    @@ ("F" :> "f") @@ ("G" :> "g") @@ ("H" :> "h") @@ ("I" :> "i") @@ ("J" :> "j")
    @@ ("K" :> "k") @@ ("L" :> "l") @@ ("M" :> "m") @@ ("N" :> "n") @@ ("O" :> "o")
    @@ ("P" :> "p") @@ ("Q" :> "q") @@ ("R" :> "r") @@ ("S" :> "s") @@ ("T" :> "t")
    @@ ("U" :> "u") @@ ("V" :> "v") @@ ("W" :> "w") @@ ("X" :> "x") @@ ("Y" :> "y")
    @@ ("Z" :> "z")

\* The runs of characters of the model that hold capital letters and are
\* lowercased somewhere, with their lowercase.
ChunkFold ==
    ("Nombre" :> "nombre") @@ ("Cantidad" :> "cantidad") @@ ("DESC" :> "desc")
    @@ ("IMAGE/PNG" :> "image/png")

\* str.lower() of Python: Unicode-aware.
PyLowerChar(c) ==
    IF c \in DOMAIN AsciiFold THEN AsciiFold[c]
    ELSE IF c \in DOMAIN ChunkFold THEN ChunkFold[c]
    ELSE IF c = "U+00C9" THEN "U+00E9"
    ELSE c

\* lower() of SQLite: folds the 26 ASCII letters only.
DbLowerChar(c) ==
    IF c \in DOMAIN AsciiFold THEN AsciiFold[c]
    ELSE IF c \in DOMAIN ChunkFold THEN ChunkFold[c]
    ELSE c

PyLower(s) == [i \in DOMAIN s |-> PyLowerChar(s[i])]

DbLower(s) == [i \in DOMAIN s |-> DbLowerChar(s[i])]

RECURSIVE LStrip(_)
LStrip(s) == IF s # <<>> /\ IsSpace(Head(s)) THEN LStrip(Tail(s)) ELSE s

RECURSIVE RStrip(_)
RStrip(s) ==
    IF s # <<>> /\ IsSpace(s[Len(s)]) THEN RStrip(SubSeq(s, 1, Len(s) - 1)) ELSE s

\* str.strip().
Strip(s) == RStrip(LStrip(s))

\* _normalize_str: None stays None, blank text becomes None, else stripped.
NormalizeStr(s) ==
    IF IsNone(s) THEN None
    ELSE LET s2 == Strip(s) IN IF s2 = <<>> THEN None ELSE s2

-----------------------------------------------------------------------------
(* Enumerations: a member is named by its symbolic name; `value` is its    *)
(* display value.  A posted or imported value is a text of one token, such *)
(* as <<"Common">>; <<" ", "Common">> has a leading blank.                 *)

Rarity ==
    { [name |-> "COMMON", value |-> "Common"],
      [name |-> "UNCOMMON", value |-> "Uncommon"],
      [name |-> "RARE", value |-> "Rare"],
      [name |-> "ULTRA_RARE", value |-> "Ultra Rare"],
      [name |-> "SECRET_RARE", value |-> "Secret Rare"],
      [name |-> "PROMO", value |-> "Promo"] }

Condition ==
    { [name |-> "MINT", value |-> "MINT"],
      [name |-> "NM", value |-> "NM"],
      [name |-> "LP", value |-> "LP"],
      [name |-> "MP", value |-> "MP"],
      [name |-> "HP", value |-> "HP"],
      [name |-> "DAMAGED", value |-> "Damaged"] }

Language ==
    { [name |-> n, value |-> n] :
        n \in {"ES", "EN", "JP", "PT", "FR", "DE", "IT", "CN", "KR"} }

ComercialCondition ==
    { [name |-> "COLLECTION", value |-> "Collection"],
      [name |-> "TRADE", value |-> "Trade"],
      [name |-> "SELL", value |-> "Sell"],
      [name |-> "RESERVED", value |-> "Reserved"] }

\* The outcome of a lookup that raises.
Invalid == "<invalid>"

EnumFromValue_ValueOnly(enum_cls, value) ==
    IF \E m \in enum_cls : <<m.value>> = value
    THEN (CHOOSE m \in enum_cls : <<m.value>> = value).name
    ELSE Invalid

\* _enum_from_value: by display value first, then by symbolic name; raises
\* (Invalid) when neither matches.  Both lookups are exact, case-sensitive.
EnumFromValue(enum_cls, value) ==
    IF \E m \in enum_cls : <<m.value>> = value
    THEN (CHOOSE m \in enum_cls : <<m.value>> = value).name
    ELSE IF \E m \in enum_cls : <<m.name>> = value
         THEN (CHOOSE m \in enum_cls : <<m.name>> = value).name
         ELSE Invalid

-----------------------------------------------------------------------------
(* The store.                                                              *)

Max(S) == CHOOSE x \in S : \A y \in S : y <= x

\* SQLite INTEGER PRIMARY KEY without AUTOINCREMENT: largest rowid + 1.
NextId(its) == Max(DOMAIN its \cup {0}) + 1

\* The expressions of the unique index uq_item_variant_ci, evaluated by the
\* store (its own lower()).
DbKey(it) ==
    << DbLower(it.game), DbLower(Coalesce(it.set_code)), DbLower(it.set_name),
       it.number_set, it.language, it.condition, DbLower(Coalesce(it.variant)) >>

\* Whether inserting / updating row `id` to `it` breaks uq_item_variant_ci.
IndexViolated(its, id, it) ==
    \E j \in DOMAIN its : j # id /\ DbKey(its[j]) = DbKey(it)

\* _find_duplicate_ci: the candidate is stripped and lowercased by Python, the
\* stored columns are lowercased by the store; .first() of the matches.
FindDuplicateCI(its, game, set_code, set_name, number_set, language_e, condition_e, variant) ==
    LET g == PyLower(Strip(OrEmpty(game)))
        sc == PyLower(Strip(OrEmpty(set_code)))
        sn == PyLower(Strip(OrEmpty(set_name)))
        v == PyLower(Strip(OrEmpty(variant)))
        hit == { j \in DOMAIN its :
                   /\ DbLower(its[j].game) = g
                   /\ DbLower(Coalesce(its[j].set_code)) = sc
                   /\ DbLower(its[j].set_name) = sn
                   /\ its[j].number_set = number_set
                   /\ its[j].language = language_e
                   /\ its[j].condition = condition_e
                   /\ DbLower(Coalesce(its[j].variant)) = v }
    IN IF hit = {} THEN 0 ELSE CHOOSE j \in hit : \A k \in hit : j <= k

\* The form fields of create_item / update_item after _normalize_str and
\* _enum_from_value; the columns of the row the handler builds from them.
ItemOf(f) ==
    [ name |-> NormalizeStr(f.name),
      game |-> NormalizeStr(f.game),
      set_name |-> NormalizeStr(f.set_name),
      set_code |-> NormalizeStr(f.set_code),
      number_set |-> f.number_set,
      rarity |-> EnumFromValue(Rarity, f.rarity),
      condition |-> EnumFromValue(Condition, f.condition),
      language |-> EnumFromValue(Language, f.language),
      quantity |-> f.quantity,
      location |-> NormalizeStr(f.location),
      comercial_condition |-> EnumFromValue(ComercialCondition, f.comercial_condition),
      variant |-> NormalizeStr(f.variant),
      notes |-> NormalizeStr(f.notes),
      image_path |-> None ]

\* The `errors` list of create_item / update_item is non-empty.
FormErrors(f) ==
    LET it == ItemOf(f)
    IN \/ IsNone(it.name)
       \/ IsNone(it.game)
       \/ IsNone(it.set_name)
       \/ it.quantity < 0
       \/ it.rarity = Invalid
       \/ it.condition = Invalid
       \/ it.language = Invalid
       \/ it.comercial_condition = Invalid

\* The resolver as the handlers call it, on the normalised fields.
DuplicateOf(its, it) ==
    FindDuplicateCI(its, it.game, it.set_code, it.set_name, it.number_set,
                    it.language, it.condition, it.variant)

Idle == imp.pc = "idle"

Response(op, status, existing) == [op |-> op, status |-> status, existing |-> existing]

\* POST /items.
create_item(f) ==
    /\ Idle
    /\ LET it == ItemOf(f)
           existing == DuplicateOf(items, it)
       IN IF FormErrors(f)
          THEN /\ resp' = Response("create_item", 400, 0)
               /\ UNCHANGED items
          ELSE IF existing # 0
          THEN /\ resp' = Response("create_item", 409, existing)
               /\ UNCHANGED items
          ELSE IF IndexViolated(items, 0, it)
          THEN \* IntegrityError on commit: rollback, resolver re-run.
               /\ resp' = Response("create_item", 409, DuplicateOf(items, it))
               /\ UNCHANGED items
          ELSE /\ items' = items @@ (NextId(items) :> it)
               /\ resp' = Response("create_item", 303, 0)
    /\ UNCHANGED <<tags, links, imp, pending, media, file>>

\* POST /items served to several clients at once, each request with its own
\* session.  First half of the handler: validation and the resolver's
\* pre-check, read from the committed store; a request that passes holds the
\* row it is about to add.
create_item_precheck(p, f) ==
    /\ Idle
    /\ p \notin DOMAIN pending
    /\ LET it == ItemOf(f)
           existing == DuplicateOf(items, it)
       IN IF FormErrors(f)
          THEN /\ resp' = Response("create_item", 400, 0)
               /\ UNCHANGED pending
          ELSE IF existing # 0
          THEN /\ resp' = Response("create_item", 409, existing)
               /\ UNCHANGED pending
          ELSE /\ pending' = pending @@ (p :> it)
               /\ UNCHANGED resp
    /\ UNCHANGED <<items, tags, links, imp, media, file>>

\* Second half: session.add and session.commit.  The store takes one
\* writer at a time; the unique index is checked against what is committed
\* then.  IntegrityError: rollback, resolver re-run, 409; no second attempt.
create_item_commit(p) ==
    /\ Idle
    /\ p \in DOMAIN pending
    /\ LET it == pending[p]
       IN IF IndexViolated(items, 0, it)
          THEN /\ resp' = Response("create_item", 409, DuplicateOf(items, it))
               /\ UNCHANGED items
          ELSE /\ items' = items @@ (NextId(items) :> it)
               /\ resp' = Response("create_item", 303, 0)
    /\ pending' = [q \in DOMAIN pending \ {p} |-> pending[q]]
    /\ UNCHANGED <<tags, links, imp, media, file>>

\* POST /item/{item_id}/merge-add.  Form(..., ge=0) rejects a negative add_qty
\* before the handler runs (422).
merge_item_quantity(item_id, add_qty) ==
    /\ Idle
    /\ IF add_qty < 0
       THEN /\ resp' = Response("merge_item_quantity", 422, 0)
            /\ UNCHANGED items
       ELSE IF item_id \notin DOMAIN items
       THEN /\ resp' = Response("merge_item_quantity", 303, 0)
            /\ UNCHANGED items
       ELSE /\ items[item_id].quantity + add_qty <= MaxQty
            /\ items' = [items EXCEPT ![item_id].quantity = @ + add_qty]
            /\ resp' = Response("merge_item_quantity", 303, 0)
    /\ UNCHANGED <<tags, links, imp, pending, media, file>>

\* merge_item_quantity served for client `p` beside other clients, first
\* half: session.get reads the item in the request's own session and the
\* handler computes the new quantity from what it read.  The read takes no
\* lock that outlives it.
merge_item_quantity_read(p, item_id, add_qty) ==
    /\ Idle
    /\ p \notin DOMAIN pending
    /\ IF add_qty < 0
       THEN /\ resp' = Response("merge_item_quantity", 422, 0)
            /\ UNCHANGED pending
       ELSE IF item_id \notin DOMAIN items
       THEN /\ resp' = Response("merge_item_quantity", 303, 0)
            /\ UNCHANGED pending
       ELSE /\ pending' = pending @@ (p :> [ item_id |-> item_id, add_qty |-> add_qty,
                                             quantity |-> items[item_id].quantity + add_qty ])
            /\ UNCHANGED resp
    /\ UNCHANGED <<items, tags, links, imp, media, file>>

\* Second half: session.commit writes the quantity the handler computed
\* (UPDATE ... SET quantity = <value>); writers take the store in turn.
merge_item_quantity_commit(p) ==
    /\ Idle
    /\ p \in DOMAIN pending
    /\ items' = [items EXCEPT ![pending[p].item_id].quantity = pending[p].quantity]
    /\ resp' = Response("merge_item_quantity", 303, 0)
    /\ pending' = [q \in DOMAIN pending \ {p} |-> pending[q]]
    /\ UNCHANGED <<tags, links, imp, media, file>>

\* POST /item/{item_id}/edit.
update_item(item_id, f) ==
    /\ Idle
    /\ LET it == ItemOf(f)
           existing == DuplicateOf(items, it)
       IN IF item_id \notin DOMAIN items
          THEN /\ resp' = Response("update_item", 404, 0)
               /\ UNCHANGED items
          ELSE IF FormErrors(f)
          THEN /\ resp' = Response("update_item", 400, 0)
               /\ UNCHANGED items
          ELSE IF existing # 0 /\ existing # item_id
          THEN /\ resp' = Response("update_item", 409, existing)
               /\ UNCHANGED items
          ELSE LET new == [it EXCEPT !.image_path = items[item_id].image_path]
               IN IF IndexViolated(items, item_id, new)
                  THEN \* IntegrityError on commit is not caught: 500, the
                       \* session is closed and the change is discarded.
                       /\ resp' = Response("update_item", 500, 0)
                       /\ UNCHANGED items
                  ELSE /\ items' = [items EXCEPT ![item_id] = new]
                       /\ resp' = Response("update_item", 303, 0)
    /\ UNCHANGED <<tags, links, imp, pending, media, file>>

\* The media directory: `media.files` are the paths under MEDIA_ROOT that
\* exist, `media.up` is the upload being served (NoUpload when none is).
\* A path is a text: <<"items", "/", id, "_", token, ".", ext>>.
NoUpload == [pc |-> "none"]

\* _thumb_path_for / _delete_thumbnail_for: "<stem>_thumb<suffix>" under
\* items/_thumbs.
ThumbPathFor(path) ==
    SubSeq(path, 1, 2) \o <<"_thumbs", "/">> \o SubSeq(path, 3, 5)
        \o <<"_thumb">> \o SubSeq(path, 6, 7)

\* `if item.image_path:` unlink the original when it exists, then its
\* thumbnail.
Unlinked(files, image_path) ==
    IF IsNone(image_path) \/ image_path = <<>> THEN files
    ELSE files \ {image_path, ThumbPathFor(image_path)}

\* The same for every item of `sel` (the loop of bulk_delete).
UnlinkedAll(files, its, sel) ==
    files \ UNION { files \ Unlinked(files, its[j].image_path) : j \in sel }

Without(its, gone) == [j \in DOMAIN its \ gone |-> its[j]]

\* POST /item/{item_id}/delete.
delete_item(item_id) ==
    /\ Idle
    /\ IF item_id \in DOMAIN items
       THEN /\ links' = { l \in links : l[1] # item_id }
            /\ media' = [media EXCEPT !.files = Unlinked(@, items[item_id].image_path)]
            /\ items' = Without(items, {item_id})
       ELSE UNCHANGED <<items, links, media, file>>
    /\ resp' = Response("delete_item", 303, 0)
    /\ UNCHANGED <<tags, imp, pending, file>>

bulk_adjust_qty_Unclamped(ids, delta_opt) ==
    /\ Idle
    /\ IF ids = <<>> \/ delta_opt = <<>>
       THEN /\ resp' = Response("bulk_adjust_qty", 303, 0)
            /\ UNCHANGED items
       ELSE LET sel == { ids[i] : i \in DOMAIN ids } \cap DOMAIN items
            IN /\ \A j \in sel : items[j].quantity + delta_opt[1] <= MaxQty
               /\ items' = [ j \in DOMAIN items |->
                               IF j \in sel
                               THEN [items[j] EXCEPT !.quantity = @ + delta_opt[1]]
                               ELSE items[j] ]
               /\ resp' = Response("bulk_adjust_qty", 303, 0)
    /\ UNCHANGED <<tags, links, imp, pending, media, file>>

\* POST /items/bulk/adjust-qty.  `ids` is the posted id list (<<>> when the
\* form has none), `delta_opt` the posted delta: <<d>>, or <<>> when absent.
bulk_adjust_qty(ids, delta_opt) ==
    /\ Idle
    /\ IF ids = <<>>
       THEN /\ resp' = Response("bulk_adjust_qty", 303, 0)
            /\ UNCHANGED items
       ELSE IF delta_opt = <<>>
       THEN /\ resp' = Response("bulk_adjust_qty", 303, 0)
            /\ UNCHANGED items
       ELSE LET sel == { ids[i] : i \in DOMAIN ids } \cap DOMAIN items
                delta == delta_opt[1]
                new_q(j) == items[j].quantity + delta
            IN /\ \A j \in sel : new_q(j) <= MaxQty
               /\ items' = [ j \in DOMAIN items |->
                               IF j \in sel
                               THEN [items[j] EXCEPT
                                       !.quantity = IF new_q(j) < 0 THEN 0 ELSE new_q(j)]
                               ELSE items[j] ]
               /\ resp' = Response("bulk_adjust_qty", 303, 0)
    /\ UNCHANGED <<tags, links, imp, pending, media, file>>

\* POST /items/bulk/set-status.
bulk_set_status(ids, status_value) ==
    /\ Idle
    /\ IF ids = <<>>
       THEN /\ resp' = Response("bulk_set_status", 303, 0)
            /\ UNCHANGED items
       ELSE IF status_value = <<>>
       THEN /\ resp' = Response("bulk_set_status", 303, 0)
            /\ UNCHANGED items
       ELSE IF EnumFromValue(ComercialCondition, status_value) = Invalid
       THEN /\ resp' = Response("bulk_set_status", 303, 0)
            /\ UNCHANGED items
       ELSE LET sel == { ids[i] : i \in DOMAIN ids } \cap DOMAIN items
                status_e == EnumFromValue(ComercialCondition, status_value)
            IN /\ items' = [ j \in DOMAIN items |->
                               IF j \in sel
                               THEN [items[j] EXCEPT !.comercial_condition = status_e]
                               ELSE items[j] ]
               /\ resp' = Response("bulk_set_status", 303, 0)
    /\ UNCHANGED <<tags, links, imp, pending, media, file>>

\* POST /items/bulk-delete.
bulk_delete(ids) ==
    /\ Idle
    /\ IF ids = <<>>
       THEN UNCHANGED <<items, links, media, file>>
       ELSE LET sel == { ids[i] : i \in DOMAIN ids } \cap DOMAIN items
            IN /\ links' = { l \in links : l[1] \notin sel }
               /\ media' = [media EXCEPT !.files = UnlinkedAll(@, items, sel)]
               /\ items' = Without(items, sel)
    /\ resp' = Response("bulk_delete", 303, 0)
    /\ UNCHANGED <<tags, imp, pending, file>>

-----------------------------------------------------------------------------
(* CSV import.                                                             *)

\* _FIELD_SYNONYMS, in the order of the dictionary.
Fields ==
    << "name", "game", "set_name", "set_code", "number_set", "rarity",
       "condition", "language", "quantity", "location", "comercial_condition",
       "variant", "notes", "tags" >>

FieldSynonyms ==
    [ name |-> <<"name", "card_name", "nombre">>,
      game |-> <<"game", "juego">>,
      set_name |-> <<"set_name", "set", "collection", "coleccion", "colecci(U+00F3)n">>,
      set_code |-> <<"set_code", "code", "setcode", "codigo_set", "c(U+00F3)digo_set">>,
      number_set |-> <<"number_set", "set_number", "number", "no", "n(U+00FA)mero">>,
      rarity |-> <<"rarity", "rareza">>,
      condition |-> <<"condition", "estado">>,
      language |-> <<"language", "lang", "idioma">>,
      quantity |-> <<"quantity", "qty", "cantidad", "stock">>,
      location |-> <<"location", "ubicacion", "ubicaci(U+00F3)n", "where">>,
      comercial_condition |->
          <<"comercial_condition", "status", "estado_comercial", "commercial_status">>,
      variant |-> <<"variant", "variante", "finish", "foil">>,
      notes |-> <<"notes", "nota", "observaciones", "comments">>,
      tags |-> <<"tags", "etiquetas", "labels">> ]

Min(S) == CHOOSE x \in S : \A y \in S : x <= y

IndexFor_FirstKnownColumn(field, headers) ==
    LET syns == FieldSynonyms[field]
        known == { i \in DOMAIN headers :
                     \/ PyLower(Strip(OrEmpty(headers[i]))) = <<field>>
                     \/ \E k \in DOMAIN syns :
                            PyLower(Strip(OrEmpty(headers[i]))) = <<syns[k]>> }
    IN IF known = {} THEN 0 ELSE Min(known)

\* _index_for: the first column whose stripped, lowercased header is the
\* field's name; else the first column matching the earliest synonym; else
\* none (0).  Columns are numbered from 1 here.
IndexFor(field, headers) ==
    LET hl == [i \in DOMAIN headers |-> PyLower(Strip(OrEmpty(headers[i])))]
        exact == { i \in DOMAIN headers : hl[i] # <<>> /\ hl[i] = <<field>> }
        syns == FieldSynonyms[field]
        cols(k) == { i \in DOMAIN headers : hl[i] = <<syns[k]>> }
        found == { k \in DOMAIN syns : cols(k) # {} }
    IN IF exact # {} THEN Min(exact)
       ELSE IF found # {} THEN Min(cols(Min(found)))
       ELSE 0

required_WithoutEnums == <<"name", "game", "set_name", "number_set">>

required == <<"name", "game", "set_name", "number_set", "rarity", "condition", "language">>

IsDigit(c) == c \in {"0", "1", "2", "3", "4", "5", "6", "7", "8", "9"}

DigitVal(c) ==
    CASE c = "0" -> 0 [] c = "1" -> 1 [] c = "2" -> 2 [] c = "3" -> 3 [] c = "4" -> 4
      [] c = "5" -> 5 [] c = "6" -> 6 [] c = "7" -> 7 [] c = "8" -> 8 [] OTHER -> 9

RECURSIVE DigitsVal(_)
DigitsVal(s) ==
    IF s = <<>> THEN 0 ELSE 10 * DigitsVal(SubSeq(s, 1, Len(s) - 1)) + DigitVal(s[Len(s)])

\* int(text): blanks around, an optional sign, decimal digits with single
\* underscores between them; anything else raises ValueError (ok = FALSE).
ParseInt(s) ==
    LET t == Strip(s)
        signed == t # <<>> /\ Head(t) \in {"-", "+"}
        body == IF signed THEN Tail(t) ELSE t
        digits == SelectSeq(body, IsDigit)
        wellformed ==
            /\ body # <<>>
            /\ \A i \in DOMAIN body : IsDigit(body[i]) \/ body[i] = "_"
            /\ IsDigit(body[1]) /\ IsDigit(body[Len(body)])
            /\ \A i \in 1..(Len(body) - 1) : ~(body[i] = "_" /\ body[i + 1] = "_")
    IN IF ~wellformed
       THEN [ok |-> FALSE, val |-> 0]
       ELSE [ok |-> TRUE,
             val |-> IF signed /\ Head(t) = "-" THEN 0 - DigitsVal(digits) ELSE DigitsVal(digits)]

IsSep(c) == c \in {",", ";"}

RECURSIVE SplitSep(_)
\* re.split(r"[;,]", value): the pieces between separators.
SplitSep(s) ==
    IF \A i \in DOMAIN s : ~IsSep(s[i]) THEN <<s>>
    ELSE LET k == Min({ i \in DOMAIN s : IsSep(s[i]) })
         IN <<SubSeq(s, 1, k - 1)>> \o SplitSep(SubSeq(s, k + 1, Len(s)))

\* _split_tags: the stripped, non-blank pieces.
SplitTags(value) ==
    IF IsNone(value) \/ value = <<>> THEN <<>>
    ELSE LET parts == SplitSep(value)
         IN SelectSeq([i \in DOMAIN parts |-> Strip(parts[i])], LAMBDA p : p # <<>>)

TagNamed_Absent(tgs, tname) == 0

\* select(Tag).where(Tag.name == tname).first(): the tag's id, 0 for none.
TagNamed(tgs, tname) ==
    LET hit == { t \in DOMAIN tgs : tgs[t] = tname }
    IN IF hit = {} THEN 0 ELSE Min(hit)

RECURSIVE AttachTags(_, _, _, _, _)
\* The `for tname in tag_names` loop of import_csv: look the tag up by exact
\* name, create it when absent and allowed, then link it unless linked.
AttachTags(tgs, lks, item_id, tag_names, create_missing_tags) ==
    IF tag_names = <<>> THEN [tags |-> tgs, links |-> lks]
    ELSE LET tname == Head(tag_names)
             tag == TagNamed(tgs, tname)
         IN IF tag = 0 /\ ~create_missing_tags
            THEN AttachTags(tgs, lks, item_id, Tail(tag_names), create_missing_tags)
            ELSE LET tid == IF tag = 0 THEN NextId(tgs) ELSE tag
                     tgs2 == IF tag = 0 THEN tgs @@ (tid :> tname) ELSE tgs
                     linked == <<item_id, tid>> \in lks
                 IN AttachTags(tgs2, IF linked THEN lks ELSE lks \cup {<<item_id, tid>>},
                               item_id, Tail(tag_names), create_missing_tags)

\* The key of the spec's uniqueness invariant: the natural-key tuple with
\* every text lowercased as letters are (str.lower()).
NaturalKey(it) ==
    << PyLower(it.game), PyLower(Coalesce(it.set_code)), PyLower(it.set_name),
       it.number_set, it.language, it.condition, PyLower(Coalesce(it.variant)) >>

\* get(field) of import_csv for one data row.
RowGet(idx, row, field) ==
    LET i == idx[field]
    IN IF i = 0 \/ i > Len(row) THEN None ELSE Strip(row[i])

Falsy(s) == IsNone(s) \/ s = <<>>

\* The values import_csv reads from a row, before validation.
RowFields(idx, row) ==
    [ name |-> NormalizeStr(RowGet(idx, row, "name")),
      game |-> NormalizeStr(RowGet(idx, row, "game")),
      set_name |-> NormalizeStr(RowGet(idx, row, "set_name")),
      set_code |-> NormalizeStr(RowGet(idx, row, "set_code")),
      number_set_str |-> RowGet(idx, row, "number_set"),
      rarity_s |-> OrEmpty(RowGet(idx, row, "rarity")),
      condition_s |-> OrEmpty(RowGet(idx, row, "condition")),
      language_s |-> OrEmpty(RowGet(idx, row, "language")),
      quantity_str |-> RowGet(idx, row, "quantity"),
      location |-> NormalizeStr(RowGet(idx, row, "location")),
      comercial_condition_s |->
          IF Falsy(RowGet(idx, row, "comercial_condition"))
          THEN <<"Collection">> ELSE RowGet(idx, row, "comercial_condition"),
      variant |-> NormalizeStr(RowGet(idx, row, "variant")),
      notes |-> NormalizeStr(RowGet(idx, row, "notes")),
      tags_s |-> RowGet(idx, row, "tags") ]

\* Which validation step of import_csv rejects the row read as `r`: "missing",
\* "number_set", "enum", "quantity", or "" when the row is valid.
RowError(r) ==
    IF \/ Falsy(r.name) \/ Falsy(r.game) \/ Falsy(r.set_name)
          \/ Falsy(r.number_set_str) \/ Falsy(r.rarity_s)
          \/ Falsy(r.condition_s) \/ Falsy(r.language_s)
    THEN "missing"
    ELSE IF ~ParseInt(r.number_set_str).ok THEN "number_set"
    ELSE IF \/ EnumFromValue(Rarity, r.rarity_s) = Invalid
            \/ EnumFromValue(Condition, r.condition_s) = Invalid
            \/ EnumFromValue(Language, r.language_s) = Invalid
            \/ EnumFromValue(ComercialCondition, r.comercial_condition_s) = Invalid
    THEN "enum"
    ELSE IF /\ ~Falsy(r.quantity_str)
            /\ \/ ~ParseInt(r.quantity_str).ok
               \/ ParseInt(r.quantity_str).val < 0
    THEN "quantity"
    ELSE ""

\* The item a valid row, read as `r`, describes.
RowItem(r) ==
    [ name |-> r.name,
      game |-> r.game,
      set_name |-> r.set_name,
      set_code |-> r.set_code,
      number_set |-> ParseInt(r.number_set_str).val,
      rarity |-> EnumFromValue(Rarity, r.rarity_s),
      condition |-> EnumFromValue(Condition, r.condition_s),
      language |-> EnumFromValue(Language, r.language_s),
      quantity |-> IF Falsy(r.quantity_str) THEN 0 ELSE ParseInt(r.quantity_str).val,
      location |-> r.location,
      comercial_condition |-> EnumFromValue(ComercialCondition, r.comercial_condition_s),
      variant |-> r.variant,
      notes |-> r.notes,
      image_path |-> None ]

\* One more skipped row with its message.
Skip_Poisoning(im, kind) ==
    [im EXCEPT !.skipped = @ + 1,
               !.errors = Append(@, [line |-> im.line_no, kind |-> kind]),
               !.failed = TRUE]

Skip_DataRowNumber(im, kind) ==
    [im EXCEPT !.skipped = @ + 1,
               !.errors = Append(@, [line |-> im.line_no - 1, kind |-> kind])]

Skip(im, kind) ==
    [im EXCEPT !.skipped = @ + 1,
               !.errors = Append(@, [line |-> im.line_no, kind |-> kind])]

\* The existing item with the row's columns written over it (policy
\* "overwrite"): every column but id and image_path.
Overwritten(old, it) == [it EXCEPT !.image_path = old.image_path]

\* The body of `for row in reader` for one row, on the store (its, tgs, lks)
\* and the handler's locals `im` (line_no already advanced): the store and
\* locals after the row.  `failed` is the session left without rollback
\* after a commit raised: every later statement on it raises.
ImportRow(its, tgs, lks, im, row) ==
    LET r == RowFields(im.idx, row)
        kind == RowError(r)
        it == RowItem(r)
        existing == DuplicateOf(its, it)
        same == [items |-> its, tags |-> tgs, links |-> lks]
        tagged(its2, im2, item_id) ==
            LET tag_names == SplitTags(r.tags_s)
                at == AttachTags(tgs, lks, item_id, tag_names, im.create_missing_tags)
            IN [items |-> its2, tags |-> at.tags, links |-> at.links, imp |-> im2]
    IN IF kind # ""
       THEN same @@ [imp |-> Skip(im, kind)]
       ELSE IF im.failed
       THEN same @@ [imp |-> Skip(im, "unexpected")]
       ELSE IF existing # 0
       THEN IF im.dup_policy = "skip"
            THEN same @@ [imp |-> [im EXCEPT !.skipped = @ + 1]]
            ELSE IF im.dup_policy = "merge"
            THEN tagged([its EXCEPT ![existing].quantity = @ + it.quantity],
                        [im EXCEPT !.updated = @ + 1], existing)
            ELSE IF IndexViolated(its, existing, Overwritten(its[existing], it))
            THEN same @@ [imp |-> [Skip(im, "unexpected") EXCEPT !.failed = TRUE]]
            ELSE tagged([its EXCEPT ![existing] = Overwritten(its[existing], it)],
                        [im EXCEPT !.updated = @ + 1], existing)
       ELSE IF IndexViolated(its, 0, it)
       THEN same @@ [imp |-> [Skip(im, "unexpected") EXCEPT !.failed = TRUE]]
       ELSE tagged(its @@ (NextId(its) :> it), [im EXCEPT !.created = @ + 1], NextId(its))

Running == imp.pc = "rows"

\* Header rows: the canonical one, one of synonyms in mixed case, one
\* without the rarity, condition and language columns.
CanonicalHeader == [i \in DOMAIN Fields |-> <<Fields[i]>>]

SynonymHeader ==
    << <<"Nombre">>, <<" ", "juego">>, <<"set">>, <<"code">>, <<"number">>, <<"rareza">>,
       <<"estado">>, <<"idioma">>, <<"Cantidad">>, <<"where">>, <<"status">>,
       <<"foil">>, <<"nota">>, <<"labels">> >>

ShortHeader == << <<"name">>, <<"game">>, <<"set_name">>, <<"number_set">> >>

Headers == { None, CanonicalHeader, SynonymHeader, ShortHeader }

\* Header rows that try the order of resolution: the first eight canonical
\* columns, then a synonym before the exact name, "Cantidad" between
\* blanks, a later synonym before an earlier one, the exact name twice, a
\* blank header; and a row whose first column is a synonym of `name` and
\* whose last is `name` itself.
BaseHeader == [i \in 1..8 |-> <<Fields[i]>>]

HeaderRows ==
    { BaseHeader \o << <<"qty">>, <<"quantity">> >>,
      BaseHeader \o << <<" ", "Cantidad", " ">> >>,
      BaseHeader \o << <<"stock">>, <<"x">>, <<"qty">> >>,
      BaseHeader \o << <<"quantity">>, <<"quantity">> >>,
      BaseHeader \o << <<>>, <<"where">> >>,
      << <<"nombre">> >> \o SubSeq(BaseHeader, 2, 8) \o << <<"name">> >>,
      ShortHeader }

\* headers_norm and idx of import_csv: the column of every field under a
\* header row.
ResolveHeaders(headers) ==
    LET headers_norm == [i \in DOMAIN headers |-> Strip(OrEmpty(headers[i]))]
    IN [f \in { Fields[i] : i \in DOMAIN Fields } |-> IndexFor(f, headers_norm)]

\* The resolution of each header row the model uploads, computed once.
HeaderIndex == [h \in (Headers \cup HeaderRows) \ {None} |-> ResolveHeaders(h)]

\* POST /import/csv up to the first data row: the header row is resolved and
\* the counters start.  `headers` is None for a file without any line.
import_csv_start(headers, dup_policy, create_missing_tags) ==
    /\ Idle
    /\ IF IsNone(headers)
       THEN /\ resp' = [op |-> "import_csv", status |-> 400, err |-> "empty",
                         missing |-> <<>>]
            /\ UNCHANGED imp
       ELSE LET idx == IF headers \in DOMAIN HeaderIndex
                       THEN HeaderIndex[headers] ELSE ResolveHeaders(headers)
                missing == SelectSeq(required, LAMBDA f : idx[f] = 0)
            IN IF missing # <<>>
               THEN /\ resp' = [op |-> "import_csv", status |-> 400, err |-> "missing",
                                 missing |-> missing]
                    /\ UNCHANGED imp
               ELSE /\ imp' = [ pc |-> "rows", idx |-> idx, dup_policy |-> dup_policy,
                                create_missing_tags |-> create_missing_tags,
                                line_no |-> 1, created |-> 0, updated |-> 0,
                                skipped |-> 0, errors |-> <<>>, failed |-> FALSE,
                                h_bad |-> 0, h_fresh |-> 0, h_dup |-> 0,
                                h_items0 |-> Cardinality(DOMAIN items) ]
                    /\ resp' = [op |-> "import_csv", status |-> 0, err |-> "",
                                 missing |-> <<>>]
    /\ UNCHANGED <<items, tags, links, pending, media, file>>

\* History of the running import, kept beside the handler's locals and read
\* by no operation: how many rows read so far failed validation (h_bad),
\* were valid with a natural key no stored item had when the row was read
\* (h_fresh), or valid with a natural key some stored item had (h_dup).
History(im, row) ==
    LET r == RowFields(im.idx, row)
        bad == RowError(r) # ""
        key == NaturalKey(RowItem(r))
        dup == ~bad /\ \E j \in DOMAIN items : NaturalKey(items[j]) = key
    IN [im EXCEPT !.h_bad = IF bad THEN @ + 1 ELSE @,
                  !.h_dup = IF dup THEN @ + 1 ELSE @,
                  !.h_fresh = IF ~bad /\ ~dup THEN @ + 1 ELSE @]

\* One data row of the file being imported.
import_csv_row(row) ==
    /\ Running
    /\ imp.line_no <= MaxRows
    /\ LET im == [imp EXCEPT !.line_no = @ + 1]
           out == ImportRow(items, tags, links, im, row)
       IN /\ \A j \in DOMAIN out.items :
                 j <= MaxId /\ out.items[j].quantity <= MaxQty
          /\ items' = out.items
          /\ tags' = out.tags
          /\ links' = out.links
          /\ imp' = History(out.imp, row)
    /\ UNCHANGED <<resp, pending, media, file>>

import_csv_end_Discarding ==
    /\ Running
    /\ resp' = [ op |-> "import_csv", status |-> 200,
                 created |-> imp.created, updated |-> imp.updated,
                 skipped |-> imp.skipped, errors |-> imp.errors,
                 total_rows |-> imp.created + imp.updated + imp.skipped ]
    /\ imp' = [pc |-> "idle"]
    /\ items' = [j \in { k \in DOMAIN items : k <= imp.h_items0 } |-> items[j]]
    /\ UNCHANGED <<tags, links, pending, media, file>>

\* The file has no more rows: the result is rendered.
import_csv_end ==
    /\ Running
    /\ resp' = [ op |-> "import_csv", status |-> 200,
                 created |-> imp.created, updated |-> imp.updated,
                 skipped |-> imp.skipped, errors |-> imp.errors,
                 total_rows |-> imp.created + imp.updated + imp.skipped ]
    /\ imp' = [pc |-> "idle"]
    /\ UNCHANGED <<items, tags, links, pending, media, file>>

-----------------------------------------------------------------------------
(* Tags and their associations with items.                                 *)

\* The redirect of a tag route: `err` is the err= parameter of its target,
\* "" when the target carries msg=.  Status 500 is an exception no handler
\* catches.
TagResponse(op, status, err) == [op |-> op, status |-> status, err |-> err]

ExistsLink_Never(lks, item_id, tag_id) == FALSE

\* select(ItemTag).where(item_id == ..., tag_id == ...).first() is not None.
\* The session autoflushes before the query, so links added earlier in the
\* same request are seen.
ExistsLink(lks, item_id, tag_id) == <<item_id, tag_id>> \in lks

ForeignKeysHold_Off(its, tgs, lks) == TRUE

\* PRAGMA foreign_keys=ON: the store refuses an association whose item or
\* tag is not stored.
ForeignKeysHold(its, tgs, lks) ==
    \A l \in lks : l[1] \in DOMAIN its /\ l[2] \in DOMAIN tgs

Used_Zero(lks, tag_id) == 0

\* select(func.count()).select_from(ItemTag).where(ItemTag.tag_id == tag_id).
Used(lks, tag_id) == Cardinality({ l \in lks : l[2] = tag_id })

\* INSERT of the associations `new`, in the order they were added to the
\* session: refused as a whole when one of them is stored already or comes
\* twice (primary key), or breaks a foreign key.
InsertLinks(its, tgs, lks, new) ==
    LET rows == { new[i] : i \in DOMAIN new }
    IN IF \/ rows \cap lks # {}
          \/ Cardinality(rows) < Len(new)
          \/ ~ForeignKeysHold(its, tgs, rows)
       THEN [ok |-> FALSE, links |-> lks]
       ELSE [ok |-> TRUE, links |-> lks \cup rows]

\* POST /tags.  `name` is Form(...): the route answers 422 for an absent or
\* empty value before the handler runs.
create_tag(name) ==
    /\ Idle
    /\ LET n == Strip(OrEmpty(name))
       IN IF IsNone(name) \/ name = <<>>
          THEN /\ resp' = TagResponse("create_tag", 422, "")
               /\ UNCHANGED tags
          ELSE IF n = <<>>
          THEN /\ resp' = TagResponse("create_tag", 303, "Name is required")
               /\ UNCHANGED tags
          ELSE IF TagNamed(tags, n) # 0
          THEN /\ resp' = TagResponse("create_tag", 303, "The tag already exists")
               /\ UNCHANGED tags
          ELSE /\ tags' = tags @@ (NextId(tags) :> n)
               /\ resp' = TagResponse("create_tag", 303, "")
    /\ UNCHANGED <<items, links, imp, pending, media, file>>

rename_tag_NoClash(tag_id, new_name) ==
    /\ Idle
    /\ LET n == Strip(OrEmpty(new_name))
       IN IF n = <<>>
          THEN /\ resp' = TagResponse("rename_tag", 303, "New name is required")
               /\ UNCHANGED tags
          ELSE IF tag_id \notin DOMAIN tags
          THEN /\ resp' = TagResponse("rename_tag", 303, "Tag not found")
               /\ UNCHANGED tags
          ELSE /\ tags' = [tags EXCEPT ![tag_id] = n]
               /\ resp' = TagResponse("rename_tag", 303, "")
    /\ UNCHANGED <<items, links, imp, pending, media, file>>

\* POST /tags/{tag_id}/rename.
rename_tag(tag_id, new_name) ==
    /\ Idle
    /\ LET n == Strip(OrEmpty(new_name))
       IN IF n = <<>>
          THEN /\ resp' = TagResponse("rename_tag", 303, "New name is required")
               /\ UNCHANGED tags
          ELSE IF tag_id \notin DOMAIN tags
          THEN /\ resp' = TagResponse("rename_tag", 303, "Tag not found")
               /\ UNCHANGED tags
          ELSE IF \E t \in DOMAIN tags : tags[t] = n /\ t # tag_id
          THEN /\ resp' = TagResponse("rename_tag", 303, "Another tag with that name exists")
               /\ UNCHANGED tags
          ELSE /\ tags' = [tags EXCEPT ![tag_id] = n]
               /\ resp' = TagResponse("rename_tag", 303, "")
    /\ UNCHANGED <<items, links, imp, pending, media, file>>

\* POST /tags/{tag_id}/delete.
delete_tag(tag_id) ==
    /\ Idle
    /\ IF tag_id \notin DOMAIN tags
       THEN /\ resp' = TagResponse("delete_tag", 303, "Tag not found")
            /\ UNCHANGED tags
       ELSE IF Used(links, tag_id) > 0
       THEN /\ resp' = TagResponse("delete_tag", 303, "Tag in use, detach from items first")
            /\ UNCHANGED tags
       ELSE /\ tags' = Without(tags, {tag_id})
            /\ resp' = TagResponse("delete_tag", 303, "")
    /\ UNCHANGED <<items, links, imp, pending, media, file>>

\* POST /items/{item_id}/tags/attach.  `tag_id` 0 stands for an absent (or
\* zero) tag_id: `if tag_id:` takes neither.  A tag made for the name is
\* committed before the association is looked at.
attach_tag_to_item(item_id, tag_name, tag_id) ==
    /\ Idle
    /\ IF item_id \notin DOMAIN items
       THEN /\ resp' = TagResponse("attach_tag_to_item", 303, "Item not found")
            /\ UNCHANGED <<tags, links>>
       ELSE LET n == IF tag_id = 0 /\ ~Falsy(tag_name) THEN Strip(tag_name) ELSE <<>>
                made == tag_id = 0 /\ n # <<>> /\ TagNamed(tags, n) = 0
                tgs == IF made THEN tags @@ (NextId(tags) :> n) ELSE tags
                tag == IF tag_id # 0
                       THEN (IF tag_id \in DOMAIN tags THEN tag_id ELSE 0)
                       ELSE IF n # <<>> THEN TagNamed(tgs, n) ELSE 0
            IN IF tag = 0
               THEN /\ resp' = TagResponse("attach_tag_to_item", 303, "Invalid tag")
                    /\ UNCHANGED <<tags, links>>
               ELSE IF ExistsLink(links, item_id, tag)
               THEN /\ tags' = tgs
                    /\ resp' = TagResponse("attach_tag_to_item", 303, "")
                    /\ UNCHANGED links
               ELSE LET ins == InsertLinks(items, tgs, links, << <<item_id, tag>> >>)
                    IN /\ tags' = tgs
                       /\ links' = ins.links
                       /\ resp' = TagResponse("attach_tag_to_item",
                                               IF ins.ok THEN 303 ELSE 500, "")
    /\ UNCHANGED <<items, imp, pending, media, file>>

\* POST /items/{item_id}/tags/detach.
detach_tag_from_item(item_id, tag_id) ==
    /\ Idle
    /\ links' = links \ {<<item_id, tag_id>>}
    /\ resp' = TagResponse("detach_tag_from_item", 303, "")
    /\ UNCHANGED <<items, tags, imp, pending, media, file>>

RECURSIVE NewLinks(_, _, _, _)
\* The `for iid in ids` loop of bulk_add_tag: the associations it adds to
\* the session, `added` being those added so far.
NewLinks(lks, added, ids, tag) ==
    IF ids = <<>> THEN added
    ELSE IF ExistsLink(lks \cup { added[i] : i \in DOMAIN added }, Head(ids), tag)
    THEN NewLinks(lks, added, Tail(ids), tag)
    ELSE NewLinks(lks, Append(added, <<Head(ids), tag>>), Tail(ids), tag)

\* POST /items/bulk/add-tag.  The tag is created and committed first; the
\* associations are one transaction, refused as a whole (IntegrityError,
\* not caught) when one of them names an item that is not stored.
bulk_add_tag(ids, tag_name, create_missing) ==
    /\ Idle
    /\ LET n == Strip(OrEmpty(tag_name))
           found == TagNamed(tags, n)
       IN IF ids = <<>> \/ n = <<>>
          THEN /\ resp' = TagResponse("bulk_add_tag", 303, "Select items and a tag")
               /\ UNCHANGED <<tags, links>>
          ELSE IF found = 0 /\ ~create_missing
          THEN /\ resp' = TagResponse("bulk_add_tag", 303, "Tag not found")
               /\ UNCHANGED <<tags, links>>
          ELSE LET tgs == IF found = 0 THEN tags @@ (NextId(tags) :> n) ELSE tags
                   tag == TagNamed(tgs, n)
                   ins == InsertLinks(items, tgs, links, NewLinks(links, <<>>, ids, tag))
               IN /\ tags' = tgs
                  /\ links' = ins.links
                  /\ resp' = TagResponse("bulk_add_tag", IF ins.ok THEN 303 ELSE 500, "")
    /\ UNCHANGED <<items, imp, pending, media, file>>

\* POST /items/bulk/remove-tag.
bulk_remove_tag(ids, tag_name) ==
    /\ Idle
    /\ LET n == Strip(OrEmpty(tag_name))
           tag == TagNamed(tags, n)
       IN IF ids = <<>> \/ n = <<>>
          THEN /\ resp' = TagResponse("bulk_remove_tag", 303, "Select items and a tag")
               /\ UNCHANGED links
          ELSE /\ links' = { l \in links :
                               ~(l[2] = tag /\ \E i \in DOMAIN ids : ids[i] = l[1]) }
               /\ resp' = TagResponse("bulk_remove_tag", 303, "")
    /\ UNCHANGED <<items, tags, imp, pending, media, file>>

\* import_csv beside other clients: the row's item first, then its tag
\* loop one statement at a time.  `todo` holds the tag names still to do
\* and `item` the id of the row's item; `tag` is the id of the tag the
\* loop holds for the name, 0 while it holds none.
InTagLoop(im, todo, item) ==
    [ k \in DOMAIN im \cup {"todo", "item", "tag"} |->
        IF k = "todo" THEN todo ELSE IF k = "item" THEN item
        ELSE IF k = "tag" THEN 0 ELSE im[k] ]

\* The next tag name of the loop, or the next row when none is left.
NextTag(im) ==
    IF Tail(im.todo) = <<>>
    THEN [im EXCEPT !.pc = "rows", !.todo = <<>>, !.tag = 0]
    ELSE [im EXCEPT !.pc = "tags", !.todo = Tail(@), !.tag = 0]

\* One data row up to `created += 1` / `updated += 1`: validation, resolver,
\* policy and the item's commit, as in ImportRow; a counted row with tags
\* goes on to its tag loop.
import_csv_row_item(row) ==
    /\ Running
    /\ imp.line_no <= MaxRows
    /\ LET im == [imp EXCEPT !.line_no = @ + 1]
           r == RowFields(im.idx, row)
           bare == IF im.idx.tags = 0 \/ im.idx.tags > Len(row) THEN row
                   ELSE [row EXCEPT ![im.idx.tags] = <<>>]
           out == ImportRow(items, tags, links, im, bare)
           counted == out.imp.created + out.imp.updated > imp.created + imp.updated
           item == IF out.imp.created > imp.created
                   THEN NextId(items) ELSE DuplicateOf(items, RowItem(r))
           tag_names == IF Falsy(r.tags_s) THEN <<>> ELSE SplitTags(r.tags_s)
       IN /\ \A j \in DOMAIN out.items :
                 j <= MaxId /\ out.items[j].quantity <= MaxQty
          /\ items' = out.items
          /\ imp' = IF counted /\ tag_names # <<>>
                    THEN InTagLoop([out.imp EXCEPT !.pc = "tags"], tag_names, item)
                    ELSE out.imp
    /\ UNCHANGED <<tags, links, resp, pending, media, file>>

\* The tag loop for the next name: the lookup by exact name.  A missing tag
\* is skipped, or is about to be added when create_missing_tags is set; a
\* tag found goes on to its association.
import_csv_row_tag ==
    /\ imp.pc = "tags"
    /\ LET tag == TagNamed(tags, Head(imp.todo))
       IN IF tag = 0 /\ ~imp.create_missing_tags
          THEN imp' = NextTag(imp)
          ELSE IF tag = 0
          THEN imp' = [imp EXCEPT !.pc = "tag_insert"]
          ELSE imp' = [imp EXCEPT !.pc = "link", !.tag = tag]
    /\ UNCHANGED <<items, tags, links, resp, pending, media, file>>

\* session.add(tag); session.commit(); session.refresh(tag) of the tag
\* loop.  When a tag of that name has been stored since the lookup,
\* uq_tag_name refuses the insert: the exception leaves the row's `try`, the
\* handler counts the row as skipped and goes to the next row.
import_csv_row_tag_commit ==
    /\ imp.pc = "tag_insert"
    /\ IF TagNamed(tags, Head(imp.todo)) # 0
       THEN /\ imp' = [Skip(imp, "unexpected") EXCEPT !.failed = TRUE, !.pc = "rows",
                                                      !.todo = <<>>, !.tag = 0]
            /\ UNCHANGED tags
       ELSE /\ tags' = tags @@ (NextId(tags) :> Head(imp.todo))
            /\ imp' = [imp EXCEPT !.pc = "link", !.tag = NextId(tags)]
    /\ UNCHANGED <<items, links, resp, pending, media, file>>

\* The association of the row's item with the tag held: the lookup of the
\* pair and, when it is not stored, session.add(link); session.commit().
import_csv_row_link ==
    /\ imp.pc = "link"
    /\ links' = IF ExistsLink(links, imp.item, imp.tag)
                THEN links ELSE links \cup {<<imp.item, imp.tag>>}
    /\ imp' = NextTag(imp)
    /\ UNCHANGED <<items, tags, resp, pending, media, file>>

\* POST /tags from client `p` while an import is being served, up to its
\* lookup of the name: the request is answered at once when the name is
\* missing, blank or taken, and otherwise goes on to its insert.
create_tag_meanwhile(p, name) ==
    /\ ~Idle
    /\ p \notin DOMAIN pending
    /\ LET n == Strip(OrEmpty(name))
       IN IF IsNone(name) \/ name = <<>>
          THEN /\ resp' = TagResponse("create_tag", 422, "")
               /\ UNCHANGED pending
          ELSE IF n = <<>>
          THEN /\ resp' = TagResponse("create_tag", 303, "Name is required")
               /\ UNCHANGED pending
          ELSE IF TagNamed(tags, n) # 0
          THEN /\ resp' = TagResponse("create_tag", 303, "The tag already exists")
               /\ UNCHANGED pending
          ELSE /\ pending' = pending @@ (p :> [name |-> n])
               /\ UNCHANGED resp
    /\ UNCHANGED <<items, tags, links, imp, media, file>>

\* session.add(t); session.commit() of that request.  When a tag of the
\* name has been stored since the lookup, uq_tag_name refuses the insert and
\* nothing catches the IntegrityError: 500, the store unchanged.
create_tag_meanwhile_commit(p) ==
    /\ p \in DOMAIN pending
    /\ IF TagNamed(tags, pending[p].name) # 0
       THEN /\ resp' = TagResponse("create_tag", 500, "")
            /\ UNCHANGED tags
       ELSE /\ tags' = tags @@ (NextId(tags) :> pending[p].name)
            /\ resp' = TagResponse("create_tag", 303, "")
    /\ pending' = [q \in DOMAIN pending \ {p} |-> pending[q]]
    /\ UNCHANGED <<items, links, imp, media, file>>

-----------------------------------------------------------------------------
(* Item images.                                                            *)

\* ALLOWED of upload_item_image: the extension of a content type, "" when
\* the type is not accepted.
AllowedExt(content_type) ==
    CASE content_type = <<"image/jpeg">> -> "jpg"
      [] content_type = <<"image/png">> -> "png"
      [] content_type = <<"image/webp">> -> "webp"
      [] OTHER -> ""

\* str(item_id) for the ids of the model.
IdText(n) == CASE n = 1 -> "1" [] n = 2 -> "2" [] n = 3 -> "3" [] OTHER -> "n"

\* Path("items") / f"{item_id}_{token}.{ext}".
ImagePath(item_id, token, ext) == <<"items", "/", IdText(item_id), "_", token, ".", ext>>

\* POST /item/{item_id}/image up to the end of shutil.copyfileobj: the item
\* is read, the content type checked, and the upload's bytes are written
\* to the new file.  `token` is secrets.token_hex(8); `is_image` tells
\* whether the bytes can be opened as an image.
upload_item_image_write(item_id, content_type, token, is_image) ==
    /\ Idle
    /\ media.up = NoUpload
    /\ LET ext == AllowedExt(PyLower(OrEmpty(content_type)))
       IN IF item_id \notin DOMAIN items
          THEN /\ resp' = TagResponse("upload_item_image", 303, "Item not found")
               /\ UNCHANGED media
          ELSE IF ext = ""
          THEN /\ resp' = TagResponse("upload_item_image", 303, "Unsupported image type")
               /\ UNCHANGED media
          ELSE LET dest_path == ImagePath(item_id, token, ext)
               IN /\ media' = [ files |-> media.files \cup {dest_path},
                                up |-> [ pc |-> "written", item_id |-> item_id,
                                         path |-> dest_path, is_image |-> is_image,
                                         old |-> items[item_id].image_path,
                                         fault |-> "none" ] ]
                  /\ UNCHANGED resp
    /\ UNCHANGED <<items, tags, links, imp, pending, file>>

upload_item_image_unlink_Keeping(fault) ==
    /\ media.up.pc = "written"
    /\ media' = [media EXCEPT !.up.pc = "unlinked"]
    /\ UNCHANGED <<items, tags, links, resp, imp, pending, file>>

\* `if item.image_path:` the previous original and then its thumbnail are
\* unlinked, best effort.  `fault` is what the filesystem does: "none"; an
\* error on the "original", which leaves the `try` before the thumbnail is
\* looked at, so both files stay; or an error on the "thumbnail", swallowed
\* in _delete_thumbnail_for after the original is gone.  `media.up.fault`
\* keeps the outcome.
upload_item_image_unlink(fault) ==
    /\ media.up.pc = "written"
    /\ LET old == items[media.up.item_id].image_path
           had == ~(IsNone(old) \/ old = <<>>)
       IN media' = [media EXCEPT
                      !.files = IF ~had \/ fault = "original" THEN @
                                ELSE IF fault = "thumbnail" THEN @ \ {old}
                                ELSE Unlinked(@, old),
                      !.up.pc = "unlinked",
                      !.up.fault = IF had THEN fault ELSE "none"]
    /\ UNCHANGED <<items, tags, links, resp, imp, pending, file>>

\* _make_thumbnail(dest_path): written when the file opens as an image,
\* nothing otherwise (the failure is swallowed).
upload_item_image_thumbnail ==
    /\ media.up.pc = "unlinked"
    /\ media' = [media EXCEPT
                   !.files = IF media.up.is_image /\ media.up.path \in @
                             THEN @ \cup {ThumbPathFor(media.up.path)} ELSE @,
                   !.up.pc = "thumbnail"]
    /\ UNCHANGED <<items, tags, links, resp, imp, pending, file>>

\* item.image_path = rel_path; session.commit(); the redirect.
upload_item_image_commit ==
    /\ media.up.pc = "thumbnail"
    /\ items' = [items EXCEPT ![media.up.item_id].image_path = media.up.path]
    /\ media' = [media EXCEPT !.up = NoUpload]
    /\ resp' = TagResponse("upload_item_image", 303, "")
    /\ UNCHANGED <<tags, links, imp, pending, file>>

delete_item_image_KeepingFile(item_id) ==
    /\ Idle
    /\ IF item_id \notin DOMAIN items
       THEN /\ resp' = TagResponse("delete_item_image", 303, "Item not found")
            /\ UNCHANGED items
       ELSE /\ items' = [items EXCEPT ![item_id].image_path = None]
            /\ resp' = TagResponse("delete_item_image", 303, "")
    /\ UNCHANGED <<tags, links, imp, pending, media, file>>

\* POST /item/{item_id}/image/delete.
delete_item_image(item_id) ==
    /\ Idle
    /\ IF item_id \notin DOMAIN items
       THEN /\ resp' = TagResponse("delete_item_image", 303, "Item not found")
            /\ UNCHANGED <<items, media, file>>
       ELSE /\ media' = [media EXCEPT !.files = Unlinked(@, items[item_id].image_path)]
            /\ items' = [items EXCEPT ![item_id].image_path = None]
            /\ resp' = TagResponse("delete_item_image", 303, "")
    /\ UNCHANGED <<tags, links, imp, pending, file>>

-----------------------------------------------------------------------------
(* The listing page.                                                       *)

\* Query(ge=5, le=100) on `size`.
PageSizeMin == 5
PageSizeMax == 100

\* The characters of the model in the order of their code points, which is
\* the order of their UTF-8 bytes.
CodeOrder ==
    << " ", "%", ",", "1", "2", "A", "B", "M", "N", "S", "T", "_", "a", "b", "g",
       "l", "m", "n", "t", "x", "U+00C9", "U+00E9" >>

CharRank(c) == CHOOSE i \in DOMAIN CodeOrder : CodeOrder[i] = c

RECURSIVE TextLess(_, _)
\* The BINARY collation of the store: byte by byte, a prefix first.
TextLess(s, t) ==
    IF t = <<>> THEN FALSE
    ELSE IF s = <<>> THEN TRUE
    ELSE IF Head(s) = Head(t) THEN TextLess(Tail(s), Tail(t))
    ELSE CharRank(Head(s)) < CharRank(Head(t))

\* The enumeration columns hold the members' symbolic names as text; these
\* are the names of Rarity, Condition and Language in that text's order.
EnumNameOrder ==
    << "CN", "COMMON", "DAMAGED", "DE", "EN", "ES", "FR", "HP", "IT", "JP", "KR",
       "LP", "MINT", "MP", "NM", "PROMO", "PT", "RARE", "SECRET_RARE",
       "ULTRA_RARE", "UNCOMMON" >>

EnumNameRank(n) == CHOOSE i \in DOMAIN EnumNameOrder : EnumNameOrder[i] = n

RECURSIVE LikeMatch(_, _)
\* text LIKE pattern in SQLite: % is any run, _ any one character, other
\* characters compare with the ASCII letters folded.
LikeMatch(p, s) ==
    IF p = <<>> THEN s = <<>>
    ELSE IF Head(p) = "%"
    THEN LikeMatch(Tail(p), s) \/ (s # <<>> /\ LikeMatch(p, Tail(s)))
    ELSE IF s = <<>> THEN FALSE
    ELSE IF Head(p) = "_" THEN LikeMatch(Tail(p), Tail(s))
    ELSE DbLowerChar(Head(p)) = DbLowerChar(Head(s)) /\ LikeMatch(Tail(p), Tail(s))

\* func.lower(col).like(f"%{value.strip().lower()}%"); NULL matches nothing.
ContainsCI(col, value) ==
    IF IsNone(col) THEN FALSE
    ELSE LikeMatch(<<"%">> \o PyLower(Strip(value)) \o <<"%">>, DbLower(col))

\* _enum_opt: the member's name, or None for no / an unknown value.
EnumOpt(enum_cls, value) ==
    IF Falsy(value) \/ EnumFromValue(enum_cls, value) = Invalid
    THEN "None" ELSE EnumFromValue(enum_cls, value)

\* _to_int_or_none as a pair: whether an integer was read, and the integer.
ToIntOrNone(val) ==
    IF IsNone(val) \/ Strip(val) = <<>> THEN [ok |-> FALSE, val |-> 0] ELSE ParseInt(val)

\* The `filters` list of items_page, and the tag of the join: what the
\* handler derives from the query before it reads the store.
QueryFilters(qy) ==
    [ q |-> qy.q, game |-> qy.game, set_name |-> qy.set_name, tag |-> qy.tag,
      rarity_e |-> EnumOpt(Rarity, qy.rarity),
      condition_e |-> EnumOpt(Condition, qy.condition),
      language_e |-> EnumOpt(Language, qy.language),
      comercial_condition_e |-> EnumOpt(ComercialCondition, qy.comercial_condition),
      number_set_i |-> ToIntOrNone(qy.number_set),
      quantity_min_i |-> ToIntOrNone(qy.quantity_min),
      quantity_max_i |-> ToIntOrNone(qy.quantity_max) ]

\* Whether item `j` passes every filter and the tag join.
Matches(its, tgs, lks, j, flt) ==
    LET it == its[j]
    IN /\ Falsy(flt.q) \/ ContainsCI(it.name, flt.q) \/ ContainsCI(it.set_name, flt.q)
          \/ ContainsCI(it.game, flt.q) \/ ContainsCI(it.variant, flt.q)
          \/ ContainsCI(it.notes, flt.q)
       /\ Falsy(flt.game) \/ ContainsCI(it.game, flt.game)
       /\ Falsy(flt.set_name) \/ ContainsCI(it.set_name, flt.set_name)
       /\ flt.rarity_e = "None" \/ it.rarity = flt.rarity_e
       /\ flt.condition_e = "None" \/ it.condition = flt.condition_e
       /\ flt.language_e = "None" \/ it.language = flt.language_e
       /\ flt.comercial_condition_e = "None"
          \/ it.comercial_condition = flt.comercial_condition_e
       /\ ~flt.number_set_i.ok \/ it.number_set = flt.number_set_i.val
       /\ ~flt.quantity_min_i.ok \/ it.quantity >= flt.quantity_min_i.val
       /\ ~flt.quantity_max_i.ok \/ it.quantity <= flt.quantity_max_i.val
       /\ Falsy(flt.tag) \/ \E t \in DOMAIN tgs : tgs[t] = flt.tag /\ <<j, t>> \in lks

\* SORT_MAP.get(sort_by, InventoryItem.name).
SortColumn(sort_by) ==
    IF sort_by \in { "name", "set_name", "game", "quantity", "number_set",
                     "rarity", "condition", "language" }
    THEN sort_by ELSE "name"

\* The store's comparison of two rows on one column.
ColLess(col, a, b) ==
    IF col \in {"name", "set_name", "game"} THEN TextLess(a[col], b[col])
    ELSE IF col \in {"quantity", "number_set"} THEN a[col] < b[col]
    ELSE EnumNameRank(a[col]) < EnumNameRank(b[col])

\* order_by(order, InventoryItem.id.asc()): whether row `i` comes before row
\* `j`.
RowBefore_IdDescending(its, col, desc, i, j) ==
    IF its[i][col] = its[j][col] THEN i > j
    ELSE IF desc THEN ColLess(col, its[j], its[i]) ELSE ColLess(col, its[i], its[j])

RowBefore(its, col, desc, i, j) ==
    IF its[i][col] = its[j][col] THEN i < j
    ELSE IF desc THEN ColLess(col, its[j], its[i]) ELSE ColLess(col, its[i], its[j])

\* The ids of `sel` in the order of the statement.
Ordered(its, sel, col, desc) ==
    LET ahead == [ i \in sel |->
                     Cardinality({ j \in sel : RowBefore(its, col, desc, j, i) }) ]
    IN [ n \in 1..Cardinality(sel) |-> CHOOSE i \in sel : ahead[i] = n - 1 ]

\* `if page > total_pages: page = total_pages`.
ClampPage_AsRequested(page, total_pages) == page

ClampPage(page, total_pages) == IF page > total_pages THEN total_pages ELSE page

OffsetLimit_Overlapping(rows, offset, limit) ==
    SubSeq(rows, Max({1, offset}), Min({Len(rows), offset + limit}))

\* .offset(offset).limit(limit) on the ordered rows.
OffsetLimit(rows, offset, limit) ==
    SubSeq(rows, offset + 1, Min({Len(rows), offset + limit}))

\* What items_page computes for an accepted query: the count, the clamped
\* page and its rows.
Listing(its, tgs, lks, qy) ==
    LET flt == QueryFilters(qy)
        sel == { j \in DOMAIN its : Matches(its, tgs, lks, j, flt) }
        total == Cardinality(sel)
        col == SortColumn(qy.sort_by)
        desc == PyLower(qy.sort_dir) = <<"desc">>
        total_pages == Max({1, (total + qy.size - 1) \div qy.size})
        page == ClampPage(qy.page, total_pages)
        rows == OffsetLimit(Ordered(its, sel, col, desc), (page - 1) * qy.size, qy.size)
    IN [ items |-> rows, page |-> page, size |-> qy.size,
         total |-> total, total_pages |-> total_pages,
         display_from |-> IF total = 0 THEN 0 ELSE (page - 1) * qy.size + 1,
         display_to |-> Min({total, page * qy.size}) ]

\* GET /items.  Query(ge=...) rejects page < 1 and a size outside
\* PageSizeMin..PageSizeMax before the handler runs (422).
items_page(qy) ==
    /\ Idle
    /\ IF qy.page < 1 \/ qy.size < PageSizeMin \/ qy.size > PageSizeMax
       THEN resp' = [op |-> "items_page", status |-> 422, query |-> qy]
       ELSE LET l == Listing(items, tags, links, qy)
            IN resp' = [ op |-> "items_page", status |-> 200, query |-> qy,
                         items |-> l.items, page |-> l.page, size |-> l.size,
                         total |-> l.total, total_pages |-> l.total_pages,
                         display_from |-> l.display_from,
                         display_to |-> l.display_to ]
    /\ UNCHANGED <<items, tags, links, imp, pending, media, file>>

-----------------------------------------------------------------------------
(* CSV export.                                                             *)

\* An Optional[int] query parameter of export_csv: absent, an integer, or a
\* text the route rejects (422) before the handler runs.
QueryInt(val) ==
    IF IsNone(val) THEN [given |-> FALSE, ok |-> TRUE, val |-> 0]
    ELSE [given |-> TRUE, ok |-> ParseInt(val).ok, val |-> ParseInt(val).val]

\* The _enum_opt nested in _apply_items_filters_from_query.
FiltersEnumOpt(enum_cls, value) ==
    IF IsNone(value) \/ value = <<>> THEN "None"
    ELSE IF \E m \in enum_cls : <<m.value>> = value
    THEN (CHOOSE m \in enum_cls : <<m.value>> = value).name
    ELSE IF \E m \in enum_cls : <<m.name>> = value
    THEN (CHOOSE m \in enum_cls : <<m.name>> = value).name
    ELSE "None"

\* The where-clauses _apply_items_filters_from_query adds for item `it`.
FiltersHold(it, qy) ==
    LET term(v) == <<"%">> \o PyLower(Strip(v)) \o <<"%">>
        like(col, v) == ~IsNone(col) /\ LikeMatch(term(v), DbLower(col))
        given(v) == ~IsNone(v) /\ v # <<>>
        rarity_e == FiltersEnumOpt(Rarity, qy.rarity)
        condition_e == FiltersEnumOpt(Condition, qy.condition)
        language_e == FiltersEnumOpt(Language, qy.language)
        comercial_condition_e == FiltersEnumOpt(ComercialCondition, qy.comercial_condition)
        number_set == QueryInt(qy.number_set)
        quantity_min == QueryInt(qy.quantity_min)
        quantity_max == QueryInt(qy.quantity_max)
    IN /\ given(qy.q)
          => \/ like(it.name, qy.q) \/ like(it.set_name, qy.q) \/ like(it.game, qy.q)
             \/ like(it.variant, qy.q) \/ like(it.notes, qy.q)
       /\ given(qy.game) => like(it.game, qy.game)
       /\ given(qy.set_name) => like(it.set_name, qy.set_name)
       /\ rarity_e # "None" => it.rarity = rarity_e
       /\ condition_e # "None" => it.condition = condition_e
       /\ language_e # "None" => it.language = language_e
       /\ comercial_condition_e # "None" => it.comercial_condition = comercial_condition_e
       /\ number_set.given => it.number_set = number_set.val
       /\ quantity_min.given => it.quantity >= quantity_min.val
       /\ quantity_max.given => it.quantity <= quantity_max.val

\* The statement without the tag join: every item is one row.
RowCount_NoJoin(its, tgs, lks, j, qy) == IF FiltersHold(its[j], qy) THEN 1 ELSE 0

\* How many rows of the statement carry item `j`: one per tag of the item
\* named `tag` when the statement joins the tags, else one; none when a
\* where-clause fails.
RowCount(its, tgs, lks, j, qy) ==
    IF ~FiltersHold(its[j], qy) THEN 0
    ELSE IF IsNone(qy.tag) \/ qy.tag = <<>> THEN 1
    ELSE Cardinality({ t \in DOMAIN tgs : tgs[t] = qy.tag /\ <<j, t>> \in lks })

\* order_by(name, set_name, number_set), all ascending: whether row `i` has
\* to come before row `j`.
ExportBefore(its, i, j) ==
    IF its[i].name # its[j].name THEN TextLess(its[i].name, its[j].name)
    ELSE IF its[i].set_name # its[j].set_name
    THEN TextLess(its[i].set_name, its[j].set_name)
    ELSE its[i].number_set < its[j].number_set

\* The item ids of the result rows, in the statement's order; rows that tie
\* on the three columns come in the order of their ids.
ExportRows(its, tgs, lks, qy) ==
    LET n == [ j \in DOMAIN its |-> RowCount(its, tgs, lks, j, qy) ]
        sel == { <<j, k>> : j \in DOMAIN its,
                            k \in 1..Max({1, Cardinality(DOMAIN tgs)}) }
        rws == { r \in sel : r[2] <= n[r[1]] }
        ahead(r) == Cardinality({ o \in rws :
                        \/ ExportBefore(its, o[1], r[1])
                        \/ /\ ~ExportBefore(its, r[1], o[1])
                           /\ (o[1] < r[1] \/ (o[1] = r[1] /\ o[2] < r[2])) })
    IN [ i \in 1..Cardinality(rws) |-> (CHOOSE r \in rws : ahead(r) = i - 1)[1] ]

DigitChar(d) ==
    CASE d = 0 -> "0" [] d = 1 -> "1" [] d = 2 -> "2" [] d = 3 -> "3" [] d = 4 -> "4"
      [] d = 5 -> "5" [] d = 6 -> "6" [] d = 7 -> "7" [] d = 8 -> "8" [] OTHER -> "9"

RECURSIVE IntText(_)
\* str(n) as csv.writer writes an int cell: a sign and decimal digits.
IntText(n) ==
    IF n < 0 THEN <<"-">> \o IntText(0 - n)
    ELSE IF n < 10 THEN <<DigitChar(n)>>
    ELSE IntText(n \div 10) \o <<DigitChar(n % 10)>>

\* member.value of the member stored under its symbolic name.
EnumValue(enum_cls, name) == << (CHOOSE m \in enum_cls : m.name = name).value >>

\* it.tags: the names of the item's tags, in the order of the tag ids.
TagNamesOf(tgs, lks, j) ==
    LET ts == { t \in DOMAIN tgs : <<j, t>> \in lks }
    IN [ i \in 1..Cardinality(ts) |->
           tgs[CHOOSE t \in ts : Cardinality({ u \in ts : u < t }) = i - 1] ]

RECURSIVE JoinTags(_)
\* ", ".join(names).
JoinTags(names) ==
    IF names = <<>> THEN <<>>
    ELSE IF Len(names) = 1 THEN names[1]
    ELSE names[1] \o <<",", " ">> \o JoinTags(Tail(names))

\* The header row of the export.
ExportHeader == [i \in DOMAIN Fields |-> <<Fields[i]>>] \o << <<"image_path">> >>

\* The cells export_csv writes for one item.
ExportCells(it, names) ==
    << it.name, it.game, it.set_name, OrEmpty(it.set_code), IntText(it.number_set),
       EnumValue(Rarity, it.rarity), EnumValue(Condition, it.condition),
       EnumValue(Language, it.language), IntText(it.quantity), OrEmpty(it.location),
       EnumValue(ComercialCondition, it.comercial_condition), OrEmpty(it.variant),
       OrEmpty(it.notes), JoinTags(names), OrEmpty(it.image_path) >>

RECURSIVE DoubleQuotes(_)
\* Every quote character written twice.
DoubleQuotes(c) ==
    IF c = <<>> THEN <<>>
    ELSE (IF Head(c) = "\"" THEN <<"\"", "\"">> ELSE <<Head(c)>>) \o DoubleQuotes(Tail(c))

\* csv.writer, QUOTE_MINIMAL: a cell with a delimiter or a quote character
\* is written between quotes.
QuoteCell(c) ==
    IF \E i \in DOMAIN c : c[i] \in {",", "\""}
    THEN <<"\"">> \o DoubleQuotes(c) \o <<"\"">>
    ELSE c

\* writer.writerow(cells) without the line terminator.  A row of one empty
\* cell is written as two quote characters, so that its line is not blank.
CsvLine(cells) ==
    LET line[i \in DOMAIN cells] ==
            IF i = Len(cells) THEN QuoteCell(cells[i])
            ELSE QuoteCell(cells[i]) \o <<",">> \o line[i + 1]
    IN IF cells = <<>> THEN <<>>
       ELSE IF cells = << <<>> >> THEN <<"\"", "\"">>
       ELSE line[1]

\* csv.reader with delimiter ",": `cells` are the cells read, `cur` the cell
\* being read, `quoted` whether the reader is inside quotes.  A line on which
\* nothing is read is a row of no cell.
CsvParse(rest, cells, cur, quoted) ==
    LET RECURSIVE Read(_, _, _, _)
        Read(r, cs, cu, qu) ==
            IF r = <<>> THEN Append(cs, cu)
            ELSE LET c == Head(r)
                 IN IF qu
                    THEN IF c # "\"" THEN Read(Tail(r), cs, Append(cu, c), TRUE)
                         ELSE IF Len(r) > 1 /\ r[2] = "\""
                         THEN Read(Tail(Tail(r)), cs, Append(cu, c), TRUE)
                         ELSE Read(Tail(r), cs, cu, FALSE)
                    ELSE IF c = "," THEN Read(Tail(r), Append(cs, cu), <<>>, FALSE)
                    ELSE IF c = "\"" /\ cu = <<>> THEN Read(Tail(r), cs, cu, TRUE)
                    ELSE Read(Tail(r), cs, Append(cu, c), FALSE)
    IN IF rest = <<>> /\ cells = <<>> /\ cur = <<>> /\ ~quoted
       THEN <<>>
       ELSE Read(rest, cells, cur, quoted)

\* One line of the uploaded file as csv.reader returns it.
CsvCells(line) == CsvParse(line, <<>>, <<>>, FALSE)

\* The lines export_csv streams: the header, then one line per result row.
ExportLines(its, tgs, lks, rows) ==
    <<CsvLine(ExportHeader)>>
    \o [ i \in DOMAIN rows |->
           CsvLine(ExportCells(its[rows[i]], TagNamesOf(tgs, lks, rows[i]))) ]

\* GET /export/csv.
export_csv(qy) ==
    /\ Idle
    /\ IF ~QueryInt(qy.number_set).ok \/ ~QueryInt(qy.quantity_min).ok
          \/ ~QueryInt(qy.quantity_max).ok
       THEN resp' = [op |-> "export_csv", status |-> 422, query |-> qy]
       ELSE LET rows == ExportRows(items, tags, links, qy)
            IN resp' = [op |-> "export_csv", status |-> 200, query |-> qy,
                        rows |-> rows,
                        lines |-> ExportLines(items, tags, links, rows)]
    /\ UNCHANGED <<items, tags, links, imp, pending, media, file>>

\* The client keeps the export it was sent, to upload it later.
save_export ==
    /\ Idle
    /\ resp.op = "export_csv"
    /\ resp.status = 200
    /\ file' = resp.lines
    /\ UNCHANGED <<items, tags, links, resp, imp, pending, media>>

-----------------------------------------------------------------------------
(* Inputs of the model.                                                    *)

\* Descriptive columns posted together: (name, rarity, location, commercial
\* status, notes).  PayBad has a rarity no member matches.
PayA ==
    [name |-> <<"n">>, rarity |-> <<"Common">>, location |-> None,
     comercial_condition |-> <<"Collection">>, notes |-> None]

PayB ==
    [name |-> <<"m">>, rarity |-> <<"RARE">>, location |-> <<"l">>,
     comercial_condition |-> <<"Trade">>, notes |-> <<"x">>]

PayBad ==
    [name |-> <<"n">>, rarity |-> <<"common">>, location |-> None,
     comercial_condition |-> <<"Collection">>, notes |-> None]

Games == { <<"A">>, <<"a">>, <<"U+00C9">>, <<"U+00E9">> }

MkForm(p, g, q) ==
    [ name |-> p.name, game |-> g, set_name |-> <<"S">>, set_code |-> <<>>,
      number_set |-> 1, rarity |-> p.rarity, condition |-> <<"NM">>,
      language |-> <<"EN">>, quantity |-> q, location |-> p.location,
      comercial_condition |-> p.comercial_condition, variant |-> None,
      notes |-> p.notes ]

FormsCreate ==
    { MkForm(PayA, g, 0) : g \in Games \cup { <<" ", "A">>, <<" ">> } }
    \cup { MkForm(PayBad, <<"a">>, 0), MkForm(PayA, <<"a">>, 0 - 1) }

FormsEdit ==
    { MkForm(PayB, g, 2) : g \in Games } \cup { MkForm(PayBad, <<"a">>, 0) }

AddQuantities == { 2, 0 - 1 }

IdLists == { <<>>, <<1>>, <<1, 2>>, <<2, 2, 3>> }

Deltas == { <<>>, <<2>>, <<0 - 6>> }

StatusValues == { <<>>, <<"Trade">>, <<"sold">> }

DupPolicies == { "skip", "merge", "overwrite" }

\* A data row under the canonical column order.
MkRow(p, g, ns, q, tg) ==
    << p.name, g, <<"S">>, <<>>, ns, p.rarity, <<"NM">>, <<"EN">>, q,
       OrEmpty(p.location), p.comercial_condition, <<>>, OrEmpty(p.notes), tg >>

\* Valid rows of quantity 2 for every game, one of them with other
\* descriptive columns and tags; a row with a non-numeric number_set and
\* one with a negative quantity.
Rows ==
    { MkRow(PayA, g, <<"1">>, <<"2">>, <<>>) : g \in Games }
    \cup { MkRow(PayB, <<"A">>, <<" ", "1">>, <<>>, <<"t", ",", " ", "t", ";">>),
           MkRow(PayA, <<"a">>, <<"x">>, <<"2">>, <<"t">>),
           MkRow(PayA, <<"a">>, <<"1">>, <<"-", "1">>, <<"t">>) }

\* Requests that set or change a quantity, some of them to below zero.
FormsQty ==
    { MkForm(PayA, <<"a">>, 1), MkForm(PayA, <<"U+00C9">>, 0), MkForm(PayA, <<"m">>, 0 - 1) }

EditsQty == { MkForm(PayB, <<"a">>, 2), MkForm(PayB, <<"a">>, 0 - 1) }

RowsQty ==
    { MkRow(PayA, <<"a">>, <<"1">>, <<"2">>, <<>>),
      MkRow(PayA, <<"a">>, <<"1">>, <<"-", "1">>, <<"t">>) }

\* Rows for the validation of a data row: valid ones with quantity "2", with
\* an empty quantity and with no quantity cell (the row ends before it); a
\* blank game, number_set "x" and "1.5", a rarity of no member, quantity
\* "-1" and "x", and a blank line.
RowsCheck ==
    { MkRow(PayA, <<"a">>, <<"1">>, <<"2">>, <<>>),
      MkRow(PayB, <<"a">>, <<"1">>, <<>>, <<>>),
      SubSeq(MkRow(PayA, <<"m">>, <<"1">>, <<"2">>, <<>>), 1, 8),
      MkRow(PayA, <<" ">>, <<"1">>, <<"2">>, <<"t">>),
      MkRow(PayA, <<"a">>, <<"x">>, <<"2">>, <<"t">>),
      MkRow(PayA, <<"a">>, <<"1", ".", "5">>, <<"2">>, <<"t">>),
      MkRow(PayBad, <<"a">>, <<"1">>, <<"2">>, <<"t">>),
      MkRow(PayA, <<"a">>, <<"1">>, <<"-", "1">>, <<"t">>),
      MkRow(PayA, <<"a">>, <<"1">>, <<"x">>, <<"t">>),
      CsvCells(<<>>) }

\* Tag names as posted, and the (tag_name, tag_id) pairs of an attach form.
TagNames == { <<"t">>, <<"T">>, <<" ", "t">>, <<>> }

RenameNames == { <<"t">>, <<"T", " ">>, <<" ">> }

BulkTagNames == { <<"t">>, <<" ", "T">> }

\* Id lists of the bulk tag forms: none, both items with one id twice, an
\* item beside an id no item has.
IdListsTag == { <<>>, <<1, 1, 2>>, <<2, 3>> }

AttachForms ==
    { <<None, 0>>, <<<<"t">>, 0>>, <<<<" ", "T">>, 0>>, <<None, 1>>, <<<<"t">>, 2>>,
      <<None, MaxTagId + 1>> }

FormsTag == { MkForm(PayA, <<"a">>, 1), MkForm(PayA, <<"m">>, 1) }

\* Rows with tags: the same tag twice in one row, and a tag of another case.
RowsTag ==
    { MkRow(PayA, <<"a">>, <<"1">>, <<"1">>, <<"t", ",", " ", "t", ";">>),
      MkRow(PayA, <<"m">>, <<"1">>, <<"1">>, <<"T">>) }

\* Rows whose tags cell names the tag "t" beside the unknown "u", the
\* unknown alone, and "T" beside "t".
RowsMixed ==
    { MkRow(PayA, <<"a">>, <<"1">>, <<"1">>, <<"t", ",", " ", "u">>),
      MkRow(PayA, <<"m">>, <<"1">>, <<"1">>, <<"u">>),
      MkRow(PayA, <<"a">>, <<"1">>, <<"1">>, <<"T", ";", "t">>) }

\* The catalog the filters are tried on: "ab" of game "A" without notes,
\* and E-acute of game "m" with notes "x".
FilterForms ==
    { [MkForm(PayA, <<"A">>, 1) EXCEPT !.name = <<"a", "b">>],
      [MkForm(PayB, <<"m">>, 3) EXCEPT !.name = <<"U+00C9">>, !.number_set = 2] }

\* Rows that spell the categorical columns in several ways: by display
\* value, by symbolic name and in another letter case, which names no
\* member; rows with an empty commercial status and with none (the row ends
\* before it).
RowsEnum ==
    { MkRow([PayA EXCEPT !.rarity = <<ra>>], <<"a">>, <<"1">>, <<"1">>, <<>>) :
        ra \in { "Common", "COMMON", "common", "Ultra Rare", "ULTRA_RARE" } }
    \cup { MkRow([PayA EXCEPT !.comercial_condition = <<"TRADE">>],
                 <<"a">>, <<"2">>, <<"1">>, <<>>),
           [MkRow(PayA, <<"a">>, <<"2">>, <<"1">>, <<>>) EXCEPT ![7] = <<"damaged">>],
           MkRow([PayB EXCEPT !.comercial_condition = <<>>], <<"a">>, <<"2">>, <<"1">>, <<>>),
           SubSeq(MkRow(PayB, <<"a">>, <<"1">>, <<"1">>, <<>>), 1, 10) }

\* Uploads: content types as the client sends them, the random part of the
\* file name, whether the bytes are an image.
ContentTypes == { <<"image/jpeg">>, <<"IMAGE/PNG">>, <<"image/gif">>, None }

Tokens == { "k1", "k2" }

\* The data rows imported under HeaderRows.
HeaderDataRows ==
    { MkRow(PayA, <<"a">>, <<"1">>, <<"2">>, <<>>),
      MkRow(PayA, <<"A">>, <<"2">>, <<"2">>, <<"t">>) }

\* Largest item id of the catalogs the listing page is asked for.
MaxPageId == 6

\* The items the listing is run over: the n-th one has number_set n, so all
\* natural keys differ; names, games, rarities and quantities repeat.
PageForm(p, n) ==
    [ name |-> p.name, game |-> p.name, set_name |-> <<"S">>, set_code |-> <<>>,
      number_set |-> n, rarity |-> p.rarity, condition |-> <<"NM">>,
      language |-> <<"EN">>, quantity |-> IF p.name = <<"n">> THEN 2 ELSE 0,
      location |-> p.location, comercial_condition |-> p.comercial_condition,
      variant |-> None, notes |-> p.notes ]

\* A query with the defaults of items_page for all but the given parameters.
Query(sort_by, sort_dir, page, size, game, tag, quantity_min) ==
    [ q |-> None, tag |-> tag, game |-> game, set_name |-> None, rarity |-> None,
      condition |-> None, language |-> None, comercial_condition |-> None,
      number_set |-> None, quantity_min |-> quantity_min, quantity_max |-> None,
      sort_by |-> sort_by, sort_dir |-> sort_dir, page |-> page, size |-> size ]

Queries ==
    { Query(sb, sd, 1, 20, None, None, None) :
        sb \in {"name", "rarity", "quantity"}, sd \in { <<"asc">>, <<"desc">> } }
    \cup { Query("name", <<"asc">>, pg, sz, None, None, None) :
             pg \in {1, 2, 3, 99}, sz \in {5, 20} }
    \cup { Query("rarity", <<"desc">>, 2, 5, None, None, None),
           Query("price", <<"DESC">>, 1, 100, None, None, None),
           Query("quantity", <<"asc">>, 2, 5, <<" ", "N">>, None, None),
           Query("name", <<"asc">>, 99, 5, None, None, <<"1">>),
           Query("name", <<"asc">>, 2, 5, None, <<"t">>, None),
           Query("name", <<"asc">>, 1, 4, None, None, None),
           Query("name", <<"asc">>, 0, 5, None, None, None) }

\* A first page of 100 with the given filters.
FilterQuery(q, game, rarity, number_set, quantity_min, quantity_max, tag) ==
    [ Query("name", <<"asc">>, 1, PageSizeMax, game, tag, quantity_min)
        EXCEPT !.q = q, !.rarity = rarity, !.number_set = number_set,
               !.quantity_max = quantity_max ]

FilterQueries ==
    { FilterQuery(q, None, None, None, None, None, None) :
        q \in { <<"A">>, <<"b">>, <<"M">>, <<"x">>, <<"z">>, <<"_">>, <<"U+00C9">> } }
    \cup { FilterQuery(None, <<"a">>, None, None, None, None, None),
           FilterQuery(None, None, <<"Rare">>, None, None, None, None),
           FilterQuery(None, None, None, <<"2">>, None, None, None),
           FilterQuery(None, None, None, None, <<"2">>, None, None),
           FilterQuery(None, None, None, None, <<"1">>, <<"1">>, None),
           FilterQuery(None, None, None, None, None, None, <<"t">>),
           FilterQuery(<<"B">>, None, <<"COMMON">>, None, None, None, <<"t">>) }

\* Listings in pages of PageSizeMin, with and without the tag filter.
PartitionQueries ==
    { Query(sb[1], sb[2], pg, PageSizeMin, None, tg, None) :
        sb \in { <<"name", <<"asc">> >>, <<"quantity", <<"desc">> >> },
        pg \in {1, 2}, tg \in { None, <<"t">> } }
    \cup { Query("name", <<"asc">>, 1, PageSizeMin, <<"n">>, <<"t">>, <<"1">>) }

\* The catalog of the partition: items 2 and 5 are "m" with quantity 0, the
\* others "n" with quantity 2.
PartitionForm(n) == PageForm(IF n \in {2, 5} THEN PayB ELSE PayA, n)

\* Id lists of the bulk tag form: every item of a full catalog, and two.
PartitionIdLists == { [i \in 1..MaxPageId |-> i], <<1, 3>> }

\* The catalog of the round trip: an item named "n,m" of game "a" and one
\* with location and notes of game E-acute; tags "t" and "a,b".
RoundTripForms ==
    { [MkForm(PayA, <<"a">>, 1) EXCEPT !.name = <<"n", ",", "m">>],
      [MkForm(PayB, <<"U+00C9">>, 2) EXCEPT !.number_set = 12] }

RoundTripTags == { <<"t">>, <<"a", ",", "b">> }

\* Filters for the export and the listing, the listing in pages of
\* PageSizeMin.
ExportQuery(q, game, rarity, number_set, quantity_min, tag) ==
    [ FilterQuery(q, game, rarity, number_set, quantity_min, None, tag)
        EXCEPT !.size = PageSizeMin ]

ExportQueries ==
    { ExportQuery(None, None, None, None, None, tg) : tg \in { None, <<"t">>, <<"T">> } }
    \cup { ExportQuery(<<"M">>, None, None, None, None, <<"t">>),
           ExportQuery(None, <<" ", "N">>, None, None, None, None),
           ExportQuery(None, None, <<"RARE">>, None, None, None),
           ExportQuery(None, None, <<"rare">>, None, None, None),
           ExportQuery(None, None, None, <<"2">>, None, None),
           ExportQuery(None, None, None, None, <<"1">>, None),
           ExportQuery(None, None, None, <<"x">>, None, None),
           ExportQuery(None, None, None, None, <<>>, None) }

Init ==
    /\ items = << >>
    /\ tags = << >>
    /\ links = {}
    /\ resp = [op |-> "none"]
    /\ imp = [pc |-> "idle"]
    /\ pending = << >>
    /\ media = [files |-> {}, up |-> NoUpload]
    /\ file = << >>

\* The item routes, one request at a time.
Next ==
    \/ \E f \in FormsCreate : NextId(items) <= MaxId /\ create_item(f)
    \/ \E j \in 1..(MaxId + 1), f \in FormsEdit : update_item(j, f)
    \/ \E j \in 1..(MaxId + 1), q \in AddQuantities : merge_item_quantity(j, q)
    \/ \E j \in 1..(MaxId + 1) : delete_item(j)
    \/ \E ids \in IdLists, d \in Deltas : bulk_adjust_qty(ids, d)
    \/ \E ids \in IdLists, v \in StatusValues : bulk_set_status(ids, v)
    \/ \E ids \in IdLists : bulk_delete(ids)

Spec == Init /\ [][Next]_vars

\* The import over a catalog filled by create_item and by earlier rows.
NextImport ==
    \/ \E g \in Games : NextId(items) <= MaxId /\ create_item(MkForm(PayA, g, 2))
    \/ \E h \in Headers, pol \in DupPolicies, cmt \in BOOLEAN : import_csv_start(h, pol, cmt)
    \/ \E row \in Rows : import_csv_row(row)
    \/ import_csv_end

SpecImport == Init /\ [][NextImport]_vars

\* The listing page over catalogs filled by create_item.
NextPage ==
    \/ \E p \in {PayA, PayB} :
           NextId(items) <= MaxPageId /\ create_item(PageForm(p, NextId(items)))
    \/ \E qy \in Queries : items_page(qy)

SpecPage == Init /\ [][NextPage]_vars

\* POST /items from up to MaxPending clients at once.
NextRace ==
    \/ \E p \in 1..MaxPending, f \in FormsCreate :
           /\ NextId(items) + Cardinality(DOMAIN pending) <= MaxId
           /\ create_item_precheck(p, f)
    \/ \E p \in 1..MaxPending : create_item_commit(p)

SpecRace == Init /\ [][NextRace]_vars

\* Every operation that writes a quantity.
NextQty ==
    \/ \E f \in FormsQty : NextId(items) <= MaxId /\ create_item(f)
    \/ \E j \in 1..MaxId, f \in EditsQty : update_item(j, f)
    \/ \E j \in 1..MaxId, q \in AddQuantities : merge_item_quantity(j, q)
    \/ \E ids \in IdLists, d \in Deltas : bulk_adjust_qty(ids, d)
    \/ \E pol \in DupPolicies : import_csv_start(CanonicalHeader, pol, TRUE)
    \/ \E row \in RowsQty : import_csv_row(row)
    \/ import_csv_end

SpecQty == Init /\ [][NextQty]_vars

\* The tag routes, the routes that delete items, and imports with tags.
NextTags ==
    \/ \E f \in FormsTag : NextId(items) <= MaxId /\ create_item(f)
    \/ \E n \in TagNames : create_tag(n) /\ NextId(tags') <= MaxTagId + 1
    \/ \E t \in 1..(MaxTagId + 1), n \in RenameNames : rename_tag(t, n)
    \/ \E t \in 1..(MaxTagId + 1) : delete_tag(t)
    \/ \E j \in 1..(MaxId + 1), a \in AttachForms :
           attach_tag_to_item(j, a[1], a[2]) /\ NextId(tags') <= MaxTagId + 1
    \/ \E j \in 1..MaxId, t \in 1..MaxTagId : detach_tag_from_item(j, t)
    \/ \E ids \in IdListsTag, n \in BulkTagNames, cm \in BOOLEAN :
           bulk_add_tag(ids, n, cm) /\ NextId(tags') <= MaxTagId + 1
    \/ \E ids \in IdListsTag, n \in BulkTagNames : bulk_remove_tag(ids, n)
    \/ \E j \in 1..MaxId : delete_item(j)
    \/ \E ids \in IdListsTag : bulk_delete(ids)
    \/ \E cmt \in BOOLEAN : import_csv_start(CanonicalHeader, "merge", cmt)
    \/ \E row \in RowsTag :
           import_csv_row(row) /\ NextId(tags') <= MaxTagId + 1
    \/ import_csv_end

SpecTags == Init /\ [][NextTags]_vars

\* The listing page asked with filters, over tagged items.
NextFilter ==
    \/ \E f \in FilterForms : NextId(items) <= MaxId /\ create_item(f)
    \/ \E j \in 1..MaxId : attach_tag_to_item(j, <<"t">>, 0)
    \/ \E qy \in FilterQueries : items_page(qy)

SpecFilter == Init /\ [][NextFilter]_vars

\* An import with tags into an empty catalog, of fewer than MaxRows rows,
\* while another client creates tags.
NextImportRace ==
    \/ \E cmt \in BOOLEAN :
           items = <<>> /\ import_csv_start(CanonicalHeader, "merge", cmt)
    \/ \E row \in RowsTag : import_csv_row_item(row) /\ imp.line_no < MaxRows
    \/ import_csv_row_tag
    \/ import_csv_row_tag_commit /\ NextId(tags') <= MaxTagId + 1
    \/ import_csv_row_link
    \/ \E n \in { <<"t">>, <<"T">> } : create_tag_meanwhile(1, n)
    \/ create_tag_meanwhile_commit(1) /\ NextId(tags') <= MaxTagId + 1
    \/ import_csv_end

SpecImportRace == Init /\ [][NextImportRace]_vars

\* Imports of rows that spell the categorical columns in several ways.
NextEnum ==
    \/ \E pol \in DupPolicies : import_csv_start(CanonicalHeader, pol, TRUE)
    \/ \E row \in RowsEnum : import_csv_row(row)
    \/ import_csv_end

SpecEnum == Init /\ [][NextEnum]_vars

\* Filesystem errors are met while the media directory holds at most this
\* many files.
MaxFiles == 3

\* The routes that write or remove image files, one request at a time; an
\* upload is served statement by statement, and the deletion of the image
\* it replaces may meet a filesystem error.  The random token of a new file
\* name is one no stored file has.
NextMedia ==
    \/ \E f \in FormsTag : NextId(items) <= MaxId /\ media.up = NoUpload /\ create_item(f)
    \/ \E j \in 1..(MaxId + 1), ct \in ContentTypes, k \in Tokens, img \in BOOLEAN :
           /\ upload_item_image_write(j, ct, k, img)
           /\ \A e \in {"jpg", "png", "webp"} : ImagePath(j, k, e) \notin media.files
    \/ \E fault \in {"none", "original", "thumbnail"} :
           /\ upload_item_image_unlink(fault)
           /\ fault # "none" => Cardinality(media.files) <= MaxFiles
    \/ upload_item_image_thumbnail
    \/ upload_item_image_commit
    \/ \E j \in 1..(MaxId + 1) : media.up = NoUpload /\ delete_item_image(j)
    \/ \E j \in 1..MaxId : media.up = NoUpload /\ delete_item(j)
    \/ \E ids \in IdListsTag : media.up = NoUpload /\ bulk_delete(ids)

SpecMedia == Init /\ [][NextMedia]_vars

\* The same routes on a filesystem that raises no error.
NextMediaNoFault ==
    \/ \E f \in FormsTag : NextId(items) <= MaxId /\ media.up = NoUpload /\ create_item(f)
    \/ \E j \in 1..(MaxId + 1), ct \in ContentTypes, k \in Tokens, img \in BOOLEAN :
           /\ upload_item_image_write(j, ct, k, img)
           /\ \A e \in {"jpg", "png", "webp"} : ImagePath(j, k, e) \notin media.files
    \/ upload_item_image_unlink("none")
    \/ upload_item_image_thumbnail
    \/ upload_item_image_commit
    \/ \E j \in 1..(MaxId + 1) : media.up = NoUpload /\ delete_item_image(j)
    \/ \E j \in 1..MaxId : media.up = NoUpload /\ delete_item(j)
    \/ \E ids \in IdListsTag : media.up = NoUpload /\ bulk_delete(ids)

SpecMediaNoFault == Init /\ [][NextMediaNoFault]_vars

\* Imports of rows that pass or fail each validation step.
NextRows ==
    \/ \E pol \in DupPolicies : import_csv_start(CanonicalHeader, pol, TRUE)
    \/ \E row \in RowsCheck : import_csv_row(row)
    \/ import_csv_end

SpecRows == Init /\ [][NextRows]_vars

\* Imports with and without create_missing_tags over stored tags.
NextNoCreate ==
    \/ tags = <<>> /\ create_tag(<<"t">>)
    \/ \E pol \in DupPolicies, cmt \in BOOLEAN : import_csv_start(CanonicalHeader, pol, cmt)
    \/ \E row \in RowsMixed : import_csv_row(row)
    \/ import_csv_end

SpecNoCreate == Init /\ [][NextNoCreate]_vars

\* The listing page over tagged catalogs.
NextPartition ==
    \/ NextId(items) <= MaxPageId /\ create_item(PartitionForm(NextId(items)))
    \/ \E ids \in PartitionIdLists : bulk_add_tag(ids, <<"t">>, TRUE)
    \/ \E qy \in PartitionQueries : items_page(qy)

SpecPartition == Init /\ [][NextPartition]_vars

\* The unfiltered export of a catalog, kept by the client and imported
\* back into the same catalog under policy "overwrite" with tag creation.
NextRoundTrip ==
    \/ \E f \in RoundTripForms :
           file = <<>> /\ resp.op # "export_csv" /\ NextId(items) <= MaxId /\ create_item(f)
    \/ \E n \in RoundTripTags :
           file = <<>> /\ resp.op # "export_csv" /\ create_tag(n)
    \/ \E j \in 1..MaxId, t \in 1..MaxTagId :
           file = <<>> /\ resp.op # "export_csv" /\ attach_tag_to_item(j, None, t)
    \/ file = <<>> /\ export_csv(ExportQuery(None, None, None, None, None, None))
    \/ file = <<>> /\ save_export
    \/ /\ file # <<>>
       /\ resp.op = "export_csv"
       /\ import_csv_start(CsvCells(file[1]), "overwrite", TRUE)
    \/ /\ file # <<>>
       /\ Running
       /\ imp.line_no < Len(file)
       /\ import_csv_row(CsvCells(file[imp.line_no + 1]))
    \/ /\ file # <<>>
       /\ Running
       /\ imp.line_no = Len(file)
       /\ import_csv_end

SpecRoundTrip == Init /\ [][NextRoundTrip]_vars

\* POST /item/{item_id}/merge-add from up to MaxPending clients at once.
NextMerge ==
    \/ \E f \in FormsTag : NextId(items) <= MaxId /\ pending = <<>> /\ create_item(f)
    \/ \E p \in 1..MaxPending, j \in 1..(MaxId + 1), q \in AddQuantities \cup {1} :
           /\ merge_item_quantity_read(p, j, q)
           /\ \A o \in DOMAIN pending' : pending'[o].quantity <= MaxQty
    \/ \E p \in 1..MaxPending : merge_item_quantity_commit(p)

SpecMerge == Init /\ [][NextMerge]_vars

\* The export over tagged catalogs of the listing page.
NextExport ==
    \/ \E p \in {PayA, PayB} :
           NextId(items) <= MaxPageId /\ create_item(PageForm(p, NextId(items)))
    \/ \E j \in {1, 2, MaxPageId} : attach_tag_to_item(j, <<"t">>, 0)
    \/ \E qy \in ExportQueries : export_csv(qy)

SpecExport == Init /\ [][NextExport]_vars

\* Imports under the header rows that try the order of resolution.
NextHeader ==
    \/ \E h \in HeaderRows, pol \in DupPolicies, cmt \in BOOLEAN :
           import_csv_start(h, pol, cmt)
    \/ \E row \in HeaderDataRows : import_csv_row(row)
    \/ import_csv_end

SpecHeader == Init /\ [][NextHeader]_vars
-----------------------------------------------------------------------------
(* Properties.                                                             *)

\* C1: no two distinct stored items have the same natural key, the tuple
\* (lowercased game, lowercased set_code-or-empty, lowercased set_name,
\* number_set, language, condition, lowercased variant-or-empty).
C1_NaturalKeyUnique ==
    \A i \in DOMAIN items : \A j \in DOMAIN items :
        i # j => NaturalKey(items[i]) # NaturalKey(items[j])

\* C2: create_item with valid fields whose natural key equals, up to letter
\* case, that of a stored item answers 409 naming a stored item of that key,
\* and leaves the store as it was.
C2_CreateDuplicateRejected ==
    [][ \A f \in FormsCreate :
          ( /\ create_item(f)
            /\ ~FormErrors(f)
            /\ \E j \in DOMAIN items : NaturalKey(items[j]) = NaturalKey(ItemOf(f)) )
          => /\ resp'.status = 409
             /\ resp'.existing \in DOMAIN items
             /\ NaturalKey(items[resp'.existing]) = NaturalKey(ItemOf(f))
             /\ items' = items ]_vars

\* C3: under policy "merge", a valid row whose natural key a stored item has
\* adds the row's quantity to that item, changes nothing else in the
\* catalog (no new item, no other field), and counts one more update.
C3_MergeAddsQuantity ==
    [][ \A row \in Rows :
          ( /\ import_csv_row(row)
            /\ imp.dup_policy = "merge"
            /\ RowError(RowFields(imp.idx, row)) = ""
            /\ \E j \in DOMAIN items :
                   NaturalKey(items[j]) = NaturalKey(RowItem(RowFields(imp.idx, row))) )
          => \E j \in DOMAIN items :
                /\ NaturalKey(items[j]) = NaturalKey(RowItem(RowFields(imp.idx, row)))
                /\ items' = [items EXCEPT ![j].quantity =
                                @ + RowItem(RowFields(imp.idx, row)).quantity]
                /\ imp'.updated = imp.updated + 1 ]_vars

\* C4: under policy "skip", a valid row whose natural key a stored item has
\* changes no item, tag or association, and counts one more skipped row.
C4_SkipLeavesStore ==
    [][ \A row \in Rows :
          ( /\ import_csv_row(row)
            /\ imp.dup_policy = "skip"
            /\ RowError(RowFields(imp.idx, row)) = ""
            /\ \E j \in DOMAIN items :
                   NaturalKey(items[j]) = NaturalKey(RowItem(RowFields(imp.idx, row))) )
          => /\ items' = items
             /\ tags' = tags
             /\ links' = links
             /\ imp'.skipped = imp.skipped + 1 ]_vars

\* C5: under policy "overwrite", a valid row whose natural key a stored item
\* has replaces every column of that item but id and image_path by the row's
\* values (the quantity too), adds no item, and counts one more update.
C5_OverwriteReplaces ==
    [][ \A row \in Rows :
          ( /\ import_csv_row(row)
            /\ imp.dup_policy = "overwrite"
            /\ RowError(RowFields(imp.idx, row)) = ""
            /\ \E j \in DOMAIN items :
                   NaturalKey(items[j]) = NaturalKey(RowItem(RowFields(imp.idx, row))) )
          => \E j \in DOMAIN items :
                /\ NaturalKey(items[j]) = NaturalKey(RowItem(RowFields(imp.idx, row)))
                /\ items' = [items EXCEPT ![j] =
                                [RowItem(RowFields(imp.idx, row)) EXCEPT
                                    !.image_path = items[j].image_path]]
                /\ imp'.updated = imp.updated + 1 ]_vars

\* C6: while a file's rows so far are valid rows of natural keys nobody
\* stored before them, plus exactly one row that failed validation (at any
\* position), every valid row was created and is stored, and one row is
\* skipped.
C6_RowIsolation ==
    (Running /\ imp.h_dup = 0 /\ imp.h_bad = 1)
    => /\ imp.created = imp.h_fresh
       /\ imp.updated = 0
       /\ imp.skipped = 1
       /\ Cardinality(DOMAIN items) = imp.h_items0 + imp.h_fresh

\* An import that read a malformed row first and then created two items.
C6_Witness ==
    /\ Running
    /\ imp.h_dup = 0 /\ imp.h_bad = 1 /\ imp.h_fresh = 2
    /\ imp.errors # <<>> /\ imp.errors[1].line = 2 /\ imp.errors[1].kind = "number_set"
    /\ imp.created = 2
    /\ Cardinality(DOMAIN items) = imp.h_items0 + 2

\* C7: a row whose processing fails unexpectedly is counted as skipped with
\* a message carrying its line number, and a later valid row of a natural key
\* nobody stored is still created and stored.
C7_FailureDoesNotAbort ==
    [][ \A row \in Rows :
          import_csv_row(row)
          => /\ ( /\ Len(imp'.errors) > Len(imp.errors)
                  /\ imp'.errors[Len(imp'.errors)].kind = "unexpected" )
                => /\ imp'.skipped = imp.skipped + 1
                   /\ imp'.errors[Len(imp'.errors)].line = imp'.line_no
             /\ ( /\ \E e \in DOMAIN imp.errors : imp.errors[e].kind = "unexpected"
                  /\ RowError(RowFields(imp.idx, row)) = ""
                  /\ \A j \in DOMAIN items :
                         NaturalKey(items[j]) # NaturalKey(RowItem(RowFields(imp.idx, row))) )
                => /\ imp'.created = imp.created + 1
                   /\ \E j \in DOMAIN items' \ DOMAIN items :
                          items'[j] = RowItem(RowFields(imp.idx, row)) ]_vars

\* The required fields that match no column of header row `h`, by their name
\* or a synonym, compared stripped and lowercased.
C8_Unresolved ==
    [ h \in Headers \ {None} |->
        { f \in { "name", "game", "set_name", "number_set", "rarity", "condition",
                  "language" } :
            ~ \E i \in DOMAIN h : \E k \in DOMAIN FieldSynonyms[f] :
                  PyLower(Strip(h[i])) = <<FieldSynonyms[f][k]>> } ]

\* C8: when a required field (name, game, set_name, number_set, rarity,
\* condition, language) matches no column of the header row, by its name or
\* a synonym, the import answers 400 listing exactly the unmatched required
\* fields, reads no row, and leaves items, tags and associations as they were.
C8_MissingHeaderRejected ==
    [][ (Idle /\ resp'.op = "import_csv")
        => \A h \in Headers \ {None} :
             C8_Unresolved[h] # {}
             => \A pol \in DupPolicies, cmt \in BOOLEAN :
                  import_csv_start(h, pol, cmt)
                  => /\ resp'.status = 400
                     /\ resp'.err = "missing"
                     /\ { resp'.missing[i] : i \in DOMAIN resp'.missing } = C8_Unresolved[h]
                     /\ imp' = imp
                     /\ UNCHANGED <<items, tags, links>> ]_vars

\* A non-empty catalog after an import was rejected for its header row.
C8_Witness ==
    /\ resp.op = "import_csv"
    /\ resp.status = 400
    /\ resp.missing = <<"rarity", "condition", "language">>
    /\ Idle
    /\ DOMAIN items # {}

\* C9: for an accepted query (page >= 1, size in 5..100) the page served is
\* min(requested page, total_pages) with total_pages = max(1,
\* ceil(total / size)), and it holds the rows of that page: none only when
\* nothing matches.
C9_PaginationClamp ==
    [][ (resp'.op = "items_page" /\ resp'.status = 200 /\ items_page(resp'.query))
        => LET qy == resp'.query
               total == resp'.total
               ceil == CHOOSE k \in 0..total :
                           k * qy.size >= total /\ (k - 1) * qy.size < total
               total_pages == IF ceil < 1 THEN 1 ELSE ceil
               served == IF qy.page < total_pages THEN qy.page ELSE total_pages
               rest == total - (served - 1) * qy.size
           IN /\ qy.page >= 1 /\ qy.size \in 5..100
              /\ resp'.total_pages = total_pages
              /\ resp'.page = served
              /\ Len(resp'.items) = (IF rest < qy.size THEN rest ELSE qy.size)
              /\ total > 0 => resp'.items # <<>> ]_vars

\* Page 99 of six items at size 5 is served as page 2 with the sixth item.
C9_Witness ==
    /\ resp.op = "items_page"
    /\ resp.status = 200
    /\ resp.query.page = 99
    /\ resp.size = 5
    /\ resp.total = 6
    /\ resp.page = 2
    /\ Len(resp.items) = 1

\* C10: for an allowed sort key and direction, consecutive returned items are
\* in the requested order of the key, and in ascending id order when their
\* keys are equal; the same query asked again of the same catalog returns the
\* same items in the same order.
C10_StableSort ==
    [][ ( /\ resp'.op = "items_page"
          /\ resp'.status = 200
          /\ items_page(resp'.query)
          /\ resp'.query.sort_by \in { "name", "set_name", "game", "quantity",
                                       "number_set", "rarity", "condition", "language" }
          /\ resp'.query.sort_dir \in { <<"asc">>, <<"desc">> } )
        => LET qy == resp'.query
           IN /\ \A n \in 1..(Len(resp'.items) - 1) :
                    LET a == items[resp'.items[n]]
                        b == items[resp'.items[n + 1]]
                    IN IF a[qy.sort_by] = b[qy.sort_by]
                       THEN resp'.items[n] < resp'.items[n + 1]
                       ELSE IF qy.sort_dir = <<"desc">>
                            THEN ColLess(qy.sort_by, b, a)
                            ELSE ColLess(qy.sort_by, a, b)
              /\ (resp.op = "items_page" /\ resp.query = qy) => resp' = resp ]_vars

\* A listing by name whose first three items share their name and come in
\* ascending id order.
C10_Witness ==
    /\ resp.op = "items_page"
    /\ resp.status = 200
    /\ resp.query.sort_by = "name"
    /\ Len(resp.items) >= 3
    /\ items[resp.items[1]].name = items[resp.items[2]].name
    /\ items[resp.items[2]].name = items[resp.items[3]].name
    /\ resp.items[1] < resp.items[2]
    /\ resp.items[2] < resp.items[3]

\* The column the header-resolution rule gives each field under header row
\* `h`: the first column whose trimmed, lowercased header is the field's
\* name; failing that, the first column matching the earliest matching
\* synonym of the field's table; failing that, none (0).
C11_Expected ==
    [ h \in HeaderRows |->
        [ f \in { Fields[i] : i \in DOMAIN Fields } |->
            LET hdr(i) == PyLower(Strip(h[i]))
                named == { i \in DOMAIN h : hdr(i) = <<f>> }
                matching == { k \in DOMAIN FieldSynonyms[f] :
                                \E i \in DOMAIN h : hdr(i) = <<FieldSynonyms[f][k]>> }
                earliest == CHOOSE k \in matching : \A k2 \in matching : k <= k2
            IN IF named # {}
               THEN CHOOSE i \in named : \A i2 \in named : i <= i2
               ELSE IF matching # {}
               THEN CHOOSE i \in DOMAIN h :
                        /\ hdr(i) = <<FieldSynonyms[f][earliest]>>
                        /\ \A i2 \in DOMAIN h :
                               hdr(i2) = <<FieldSynonyms[f][earliest]>> => i <= i2
               ELSE 0 ] ]

\* C11: an import that starts has resolved every field to the column the
\* header-resolution rule gives: exact name first (also when a synonym
\* column comes before it), else the earliest synonym, else unresolved.
C11_HeaderResolution ==
    [][ (Idle /\ resp'.op = "import_csv" /\ imp'.pc = "rows")
        => \A h \in HeaderRows, pol \in DupPolicies, cmt \in BOOLEAN :
             import_csv_start(h, pol, cmt)
             => \A i \in DOMAIN Fields :
                  imp'.idx[Fields[i]] = C11_Expected[h][Fields[i]] ]_vars

\* An import whose `name` is the ninth column, named exactly, although the
\* first column is named by a synonym; the other header rows give
\* "Cantidad" as quantity in column 9 and quantity after "qty" in column 10.
C11_Witness ==
    /\ Running
    /\ imp.idx.name = 9
    /\ imp.idx.game = 2
    /\ C11_Expected[BaseHeader \o << <<" ", "Cantidad", " ">> >>].quantity = 9
    /\ C11_Expected[BaseHeader \o << <<"qty">>, <<"quantity">> >>].quantity = 10
\* C12: when a create_item request that passed the pre-check reaches its
\* insert and an item of the same natural key has been stored meanwhile,
\* the insert fails and nothing is stored for it, the answer is a 409 that
\* names the stored item of that key, and the request is not tried again.
C12_RaceOneStored ==
    [][ \A p \in 1..MaxPending :
          ( /\ create_item_commit(p)
            /\ \E j \in DOMAIN items : NaturalKey(items[j]) = NaturalKey(pending[p]) )
          => /\ items' = items
             /\ resp'.status = 409
             /\ resp'.existing \in DOMAIN items
             /\ NaturalKey(items[resp'.existing]) = NaturalKey(pending[p])
             /\ p \notin DOMAIN pending' ]_vars
\* C13: what a row counted as created or updated did to the catalog stays.
\* While an import runs and when it ends, no step removes an item; a step
\* that counts no row as created or updated (a skipped or failed row, the
\* end of the file) leaves every item as it was; a counted row changes at
\* most one stored item; and the catalog holds one item more for every row
\* counted as created.
C13_RowCommitKept ==
    [][ Running
        => LET created == IF imp'.pc = "rows" THEN imp'.created ELSE imp.created
               counted == /\ imp'.pc = "rows"
                          /\ imp'.created + imp'.updated > imp.created + imp.updated
           IN /\ DOMAIN items \subseteq DOMAIN items'
              /\ Cardinality(DOMAIN items') = imp.h_items0 + created
              /\ ~counted => items' = items
              /\ counted => Cardinality({ j \in DOMAIN items : items'[j] # items[j] }) <= 1
       ]_vars

\* An import that has created two items and then hit a row whose insert
\* failed, with both items in the catalog.
C13_Witness ==
    /\ Running
    /\ imp.created = 2
    /\ imp.failed
    /\ Cardinality(DOMAIN items) = imp.h_items0 + 2
\* C14: no stored quantity is negative after any step; create_item,
\* update_item, merge-add and an import row that ask for a negative
\* quantity are rejected and leave the catalog as it was; bulk adjust-qty
\* stores 0 where the sum would be below 0, the sum elsewhere.
C14_QuantityNonNegative ==
    [][ /\ \A j \in DOMAIN items' : items'[j].quantity >= 0
        /\ \A f \in FormsQty :
              (f.quantity < 0 /\ create_item(f))
              => resp'.status = 400 /\ items' = items
        /\ \A j \in DOMAIN items, f \in EditsQty :
              (f.quantity < 0 /\ update_item(j, f))
              => resp'.status = 400 /\ items' = items
        /\ \A j \in DOMAIN items, q \in AddQuantities :
              (q < 0 /\ merge_item_quantity(j, q))
              => resp'.status = 422 /\ items' = items
        /\ \A row \in RowsQty :
              (import_csv_row(row) /\ row[9] = <<"-", "1">>)
              => items' = items /\ imp'.skipped = imp.skipped + 1
        /\ \A ids \in IdLists, d \in Deltas :
              (d # <<>> /\ bulk_adjust_qty(ids, d))
              => \A j \in DOMAIN items :
                   items'[j].quantity =
                     IF \E i \in DOMAIN ids : ids[i] = j
                     THEN Max({0, items[j].quantity + d[1]})
                     ELSE items[j].quantity
      ]_vars

\* After a bulk adjustment, the item of game "a" holds quantity 0: it was
\* created, edited or imported with a positive quantity, so the adjustment
\* asked for less than nothing.
C14_Witness ==
    /\ resp.op = "bulk_adjust_qty"
    /\ \E j \in DOMAIN items : items[j].game = <<"a">> /\ items[j].quantity = 0
\* C15: no two tags have the same name (compared exactly) after any step;
\* create_tag with a name a tag has is rejected and changes nothing;
\* rename_tag to the name of another tag is rejected and changes nothing;
\* rename_tag to the tag's own name is accepted.
C15_TagNamesUnique ==
    [][ /\ \A t \in DOMAIN tags', u \in DOMAIN tags' : t # u => tags'[t] # tags'[u]
        /\ resp'.op = "create_tag"
           => \A n \in TagNames :
                (create_tag(n) /\ \E t \in DOMAIN tags : tags[t] = Strip(n))
                => tags' = tags /\ links' = links /\ resp'.err # ""
        /\ resp'.op = "rename_tag"
           => \A t \in DOMAIN tags, n \in RenameNames :
                rename_tag(t, n)
                => /\ (\E u \in DOMAIN tags : u # t /\ tags[u] = Strip(n))
                      => tags' = tags /\ links' = links /\ resp'.err # ""
                   /\ tags[t] = Strip(n)
                      => tags' = tags /\ resp'.err = ""
      ]_vars

\* Tags "t" and "T" side by side, after a rename of one to the name of the
\* other was refused.
C15_Witness ==
    /\ resp.op = "rename_tag"
    /\ resp.err = "Another tag with that name exists"
    /\ \E t \in DOMAIN tags, u \in DOMAIN tags : tags[t] = <<"t">> /\ tags[u] = <<"T">>

\* C16: attaching a tag to stored items raises no error; when each named
\* item already carries the tag, tags and associations stay as they were.
\* This holds for attach_tag_to_item, for bulk_add_tag (also with an item
\* id listed twice) and for an import row (also with a tag listed twice),
\* which is counted and never drops an association.
C16_AttachIdempotent ==
    [][ /\ resp'.op = "attach_tag_to_item"
           => \A j \in DOMAIN items, a \in AttachForms :
                attach_tag_to_item(j, a[1], a[2])
                => /\ resp'.status = 303
                   /\ \A t \in DOMAIN tags :
                        ( /\ <<j, t>> \in links
                          /\ \/ a[2] = t
                             \/ a[2] = 0 /\ ~Falsy(a[1]) /\ tags[t] = Strip(a[1]) )
                        => links' = links /\ tags' = tags /\ resp'.err = ""
        /\ resp'.op = "bulk_add_tag"
           => \A ids \in IdListsTag, n \in BulkTagNames, cm \in BOOLEAN :
                ( /\ bulk_add_tag(ids, n, cm)
                  /\ \A i \in DOMAIN ids : ids[i] \in DOMAIN items )
                => /\ resp'.status = 303
                   /\ \A t \in DOMAIN tags :
                        ( /\ ids # <<>>
                          /\ tags[t] = Strip(n)
                          /\ \A i \in DOMAIN ids : <<ids[i], t>> \in links )
                        => links' = links /\ tags' = tags /\ resp'.err = ""
        /\ (Running /\ imp'.pc = "rows")
           => /\ links \subseteq links'
              /\ imp'.skipped = imp.skipped
              /\ imp'.errors = <<>>
      ]_vars

\* Both items carry one tag after a bulk add-tag whose id list names item 1
\* twice.
C16_Witness ==
    /\ resp.op = "bulk_add_tag"
    /\ resp.status = 303
    /\ resp.err = ""
    /\ \E t \in DOMAIN tags : {<<1, t>>, <<2, t>>} \subseteq links

\* C17: every association names a stored item and a stored tag.
C17_LinksRefer ==
    \A l \in links : l[1] \in DOMAIN items /\ l[2] \in DOMAIN tags

\* A bulk add-tag that named an item not stored has been refused, with
\* associations in the store.
C17_Witness ==
    /\ resp.op = "bulk_add_tag"
    /\ resp.status = 500
    /\ links # {}

\* C18: delete_tag on a tag some association names is rejected and leaves
\* tags and associations as they were; a tag that goes is named by none.
C18_DeleteTagInUse ==
    [][ resp'.op = "delete_tag"
        => \A t \in DOMAIN tags :
             delete_tag(t)
             => /\ (\E l \in links : l[2] = t)
                   => tags' = tags /\ links' = links /\ resp'.err # ""
                /\ t \notin DOMAIN tags' => \A l \in links' : l[2] # t
      ]_vars

\* A delete_tag refused because the tag is in use.
C18_Witness ==
    /\ resp.op = "delete_tag"
    /\ resp.err = "Tag in use, detach from items first"
    /\ \E l \in links : l[2] \in DOMAIN tags
\* `a` occurs in `b` as a run of consecutive characters.
C19_Substring(a, b) ==
    \E i \in 0..(Len(b) - Len(a)) : SubSeq(b, i + 1, i + Len(a)) = a

\* The filter semantics as stated: the free-text query in one of the five
\* columns, and every other supplied filter.
C19_Matched(j, qy) ==
    LET it == items[j]
        has(col, v) == ~IsNone(col) /\ C19_Substring(PyLower(v), PyLower(col))
        member(enum_cls, v, n) ==
            \E m \in enum_cls : (<<m.value>> = v \/ <<m.name>> = v) /\ m.name = n
    IN /\ IsNone(qy.q)
          \/ has(it.name, qy.q) \/ has(it.set_name, qy.q) \/ has(it.game, qy.q)
          \/ has(it.variant, qy.q) \/ has(it.notes, qy.q)
       /\ IsNone(qy.game) \/ has(it.game, qy.game)
       /\ IsNone(qy.set_name) \/ has(it.set_name, qy.set_name)
       /\ IsNone(qy.rarity) \/ member(Rarity, qy.rarity, it.rarity)
       /\ IsNone(qy.condition) \/ member(Condition, qy.condition, it.condition)
       /\ IsNone(qy.language) \/ member(Language, qy.language, it.language)
       /\ IsNone(qy.comercial_condition)
          \/ member(ComercialCondition, qy.comercial_condition, it.comercial_condition)
       /\ IsNone(qy.number_set) \/ it.number_set = DigitsVal(qy.number_set)
       /\ IsNone(qy.quantity_min) \/ it.quantity >= DigitsVal(qy.quantity_min)
       /\ IsNone(qy.quantity_max) \/ it.quantity <= DigitsVal(qy.quantity_max)
       /\ IsNone(qy.tag) \/ \E t \in DOMAIN tags : tags[t] = qy.tag /\ <<j, t>> \in links

\* C19: the items a first page of 100 lists for a filter query are exactly
\* the stored items the filter semantics match.
C19_FilterSemantics ==
    [][ (resp'.op = "items_page" /\ resp'.status = 200 /\ resp'.query \in FilterQueries)
        => { resp'.items[i] : i \in DOMAIN resp'.items }
             = { j \in DOMAIN items : C19_Matched(j, resp'.query) } ]_vars
\* C20: when an import ends, the reported total_rows is the number of data
\* rows read, and created + updated + skipped is that number: every row is
\* counted once.
C20_ImportAccounting ==
    [][ (Running /\ resp'.op = "import_csv" /\ resp'.status = 200)
        => /\ resp'.total_rows = imp.line_no - 1
           /\ resp'.created + resp'.updated + resp'.skipped = imp.line_no - 1 ]_vars

\* The member of `enum_cls` whose display value or symbolic name is exactly
\* `v`, as a set (empty when there is none).
C21_Exact(enum_cls, v) ==
    { m.name : m \in { m \in enum_cls : <<m.value>> = v \/ <<m.name>> = v } }

\* A spelling without its letter case and format: lowercased, "_" for " ".
C21_Fold(token) ==
    CASE token \in {"Common", "COMMON", "common"} -> "common"
      [] token \in {"Ultra Rare", "ULTRA_RARE", "ultra rare"} -> "ultra_rare"
      [] token \in {"Damaged", "DAMAGED", "damaged"} -> "damaged"
      [] token \in {"Trade", "TRADE", "trade"} -> "trade"
      [] token \in {"Collection", "COLLECTION", "collection"} -> "collection"
      [] OTHER -> token

\* `v` is the spelling of a member of `enum_cls` up to letter case and format.
C21_Tolerant(enum_cls, v) ==
    /\ Len(v) = 1
    /\ \E m \in enum_cls :
          C21_Fold(v[1]) = C21_Fold(m.value) \/ C21_Fold(v[1]) = C21_Fold(m.name)

\* The row just read was skipped with the invalid-enum message.
C21_SkippedAsEnum ==
    /\ Len(imp'.errors) = Len(imp.errors) + 1
    /\ imp'.errors[Len(imp'.errors)].kind = "enum"

\* The cell of column `i` of a data row without its surrounding blanks;
\* empty when the row ends before it.
C21_Cell(row, i) == IF i > Len(row) THEN <<>> ELSE Strip(row[i])

\* The commercial status a row gives: Collection when the cell is empty or
\* the row has none.
C21_Commercial(row) ==
    IF C21_Cell(row, 11) = <<>> THEN <<"Collection">> ELSE C21_Cell(row, 11)

\* C21 as stated: a row whose four categorical values are spellings of
\* members up to letter case and format is not skipped as invalid.
C21_EnumTolerant ==
    [][ \A row \in RowsEnum :
          ( /\ import_csv_row(row)
            /\ C21_Tolerant(Rarity, C21_Cell(row, 6))
            /\ C21_Tolerant(Condition, C21_Cell(row, 7))
            /\ C21_Tolerant(Language, C21_Cell(row, 8))
            /\ C21_Tolerant(ComercialCondition, C21_Cell(row, 11)) )
          => ~C21_SkippedAsEnum ]_vars

\* C21, amended: the four categorical values are compared exactly with the
\* display values and the symbolic names, and an empty or absent commercial
\* status stands for Collection.  A row is skipped as invalid only when one
\* of the four values names no member that way; a row that is created or
\* overwrites an item stores the members so named.
C21_EnumExact ==
    [][ \A row \in RowsEnum :
          import_csv_row(row)
          => LET ra == C21_Exact(Rarity, C21_Cell(row, 6))
                 co == C21_Exact(Condition, C21_Cell(row, 7))
                 la == C21_Exact(Language, C21_Cell(row, 8))
                 cc == C21_Exact(ComercialCondition, C21_Commercial(row))
                 stored(it) == /\ it.rarity \in ra /\ it.condition \in co
                               /\ it.language \in la /\ it.comercial_condition \in cc
             IN /\ C21_SkippedAsEnum => {} \in {ra, co, la, cc}
                /\ imp'.created > imp.created => stored(items'[NextId(items)])
                /\ (imp'.updated > imp.updated /\ imp.dup_policy = "overwrite")
                   => \E j \in DOMAIN items :
                         /\ items'[j].number_set = ParseInt(C21_Cell(row, 5)).val
                         /\ stored(items'[j])
      ]_vars

\* An import that created an ULTRA_RARE item and an item of rarity RARE
\* whose row had no commercial status, stored as COLLECTION, and skipped a
\* row for its categorical value.
C21_Witness ==
    /\ Running
    /\ imp.created = 2
    /\ imp.errors = << [line |-> 4, kind |-> "enum"] >>
    /\ \E j \in DOMAIN items : items[j].rarity = "ULTRA_RARE"
    /\ \E j \in DOMAIN items :
          items[j].rarity = "RARE" /\ items[j].comercial_condition = "COLLECTION"

\* C22 as stated: while an upload replaces an image, once the new file is
\* written the previous original and its thumbnail are gone.
C22_DeletedBeforeWritten ==
    ( /\ media.up # NoUpload
      /\ ~IsNone(media.up.old)
      /\ media.up.path \in media.files )
    => /\ media.up.old \notin media.files
       /\ ThumbPathFor(media.up.old) \notin media.files

\* C22, amended: when an upload replaces an image, the new file is written
\* first; the deletion of the previous original and its thumbnail comes
\* after that, and before the new thumbnail is written and before the
\* item's image_path changes to the new file.  The deletion is best effort:
\* without a filesystem error both previous files are gone; an error on the
\* original leaves both in place, an error on the thumbnail leaves the
\* thumbnail, and the upload goes on either way.
C22_DeletedBeforePathChanges ==
    [][ (media.up # NoUpload /\ ~IsNone(media.up.old))
        => LET old == media.up.old
               id == media.up.item_id
               gone(fs) == old \notin fs /\ ThumbPathFor(old) \notin fs
           IN /\ (media.files \ media'.files) \cap {old, ThumbPathFor(old)} # {}
                 => /\ media.up.pc = "written"
                    /\ media.up.path \in media.files
              /\ \A fault \in {"none", "original", "thumbnail"} :
                    upload_item_image_unlink(fault)
                    => /\ items' = items
                       /\ fault = "none" => gone(media'.files)
                       /\ fault = "original" => media'.files = media.files
                       /\ fault = "thumbnail" => media'.files = media.files \ {old}
                       /\ media'.up.fault = fault
              /\ (ThumbPathFor(media.up.path) \in media'.files \ media.files)
                 => /\ media.up.pc = "unlinked"
                    /\ media.up.fault = "none" => gone(media.files)
              /\ items'[id].image_path # items[id].image_path
                 => /\ media.up.pc = "thumbnail"
                    /\ media.up.fault = "none" => gone(media.files)
                    /\ items'[id].image_path = media.up.path
                    /\ media.up.path \in media.files ]_vars

\* A replacing upload after its unlink met an error on the thumbnail: the
\* new file is there, the previous original is not, its thumbnail is, and
\* the item still names the previous one.
C22_Witness ==
    /\ media.up # NoUpload
    /\ media.up.pc = "unlinked"
    /\ ~IsNone(media.up.old)
    /\ media.up.fault = "thumbnail"
    /\ media.up.path \in media.files
    /\ media.up.old \notin media.files
    /\ ThumbPathFor(media.up.old) \in media.files
    /\ items[media.up.item_id].image_path = media.up.old

\* C28: on a filesystem that raises no error, between requests the original
\* files under the media directory are exactly the files some stored item
\* names by its image_path.
C28_NoOrphanMedia ==
    media.up = NoUpload
    => { f \in media.files : Len(f) = 7 }
         = { items[j].image_path :
               j \in { k \in DOMAIN items : ~IsNone(items[k].image_path) } }

\* After an image was removed from one item, another item keeps its image
\* and its thumbnail.
C28_Witness ==
    /\ media.up = NoUpload
    /\ resp.op = "delete_item_image"
    /\ resp.err = ""
    /\ \E i \in DOMAIN items, j \in DOMAIN items :
          /\ IsNone(items[i].image_path)
          /\ ~IsNone(items[j].image_path)
          /\ items[j].image_path \in media.files
          /\ ThumbPathFor(items[j].image_path) \in media.files

\* The items of all pages 1..total_pages of the listing for the filters of
\* `qy`, page after page.
C23_Listed(qy) ==
    LET pages == Listing(items, tags, links, qy).total_pages
        rows(p) == Listing(items, tags, links, [qy EXCEPT !.page = p]).items
    IN UNION { { rows(p)[i] : i \in DOMAIN rows(p) } : p \in 1..pages }

\* C23: an export the route accepts writes exactly the items the listing
\* shows over all of its pages for the same filters, each item once.
C23_ExportEqualsListing ==
    [][ (resp'.op = "export_csv" /\ resp'.status = 200)
        => LET rows == resp'.rows
           IN /\ { rows[i] : i \in DOMAIN rows } = C23_Listed(resp'.query)
              /\ \A i \in DOMAIN rows, j \in DOMAIN rows : rows[i] = rows[j] => i = j ]_vars

\* An export by tag of a catalog that fills two pages of the listing, with
\* tagged and untagged items.
C23_Witness ==
    /\ resp.op = "export_csv"
    /\ resp.status = 200
    /\ resp.query.tag = <<"t">>
    /\ Len(resp.rows) = 2
    /\ Cardinality(DOMAIN items) = MaxPageId
    /\ Listing(items, tags, links, [resp.query EXCEPT !.tag = None]).total_pages = 2

\* C24: update_item of a missing id answers 404 and changes nothing; a valid
\* edit whose natural key, up to letter case, is that of another stored item
\* answers 409 naming that item and changes nothing; any other valid edit
\* (the item's own key, in any letter case, included) answers 303 and
\* stores the posted fields.
C24_UpdateConflict ==
    [][ \A j \in 1..(MaxId + 1), f \in FormsEdit :
          update_item(j, f)
          => /\ j \notin DOMAIN items => (resp'.status = 404 /\ items' = items)
             /\ (j \in DOMAIN items /\ ~FormErrors(f))
                => LET others == { k \in DOMAIN items \ {j} :
                                     NaturalKey(items[k]) = NaturalKey(ItemOf(f)) }
                   IN IF others # {}
                      THEN /\ resp'.status = 409
                           /\ resp'.existing \in others
                           /\ items' = items
                      ELSE /\ resp'.status = 303
                           /\ items' = [items EXCEPT ![j] =
                                  [ItemOf(f) EXCEPT !.image_path = items[j].image_path]] ]_vars

\* Whether the row read as `r` is invalid in one of the ways C25 lists.
C25_Invalid(r) ==
    \/ \E v \in { r.name, r.game, r.set_name, r.number_set_str, r.rarity_s,
                   r.condition_s, r.language_s } : IsNone(v) \/ v = <<>>
    \/ ~ParseInt(r.number_set_str).ok
    \/ Invalid \in { EnumFromValue(Rarity, r.rarity_s),
                      EnumFromValue(Condition, r.condition_s),
                      EnumFromValue(Language, r.language_s),
                      EnumFromValue(ComercialCondition, r.comercial_condition_s) }
    \/ /\ ~IsNone(r.quantity_str) /\ r.quantity_str # <<>>
       /\ (~ParseInt(r.quantity_str).ok \/ ParseInt(r.quantity_str).val < 0)

\* C25: an invalid data row counts one more skipped row, adds one message
\* with the row's line number (data row n is line n + 1) and changes no
\* item, tag or association; a valid row without a quantity adds no message
\* and is stored with quantity 0 (created or overwritten), or adds 0.
C25_InvalidRowSkipped ==
    [][ \A row \in RowsCheck :
          import_csv_row(row)
          => LET r == RowFields(imp.idx, row)
                 n == imp.h_bad + imp.h_fresh + imp.h_dup + 1
                 key == NaturalKey(RowItem(r))
                 had == { j \in DOMAIN items : NaturalKey(items[j]) = key }
             IN IF C25_Invalid(r)
                THEN /\ imp'.skipped = imp.skipped + 1
                     /\ Len(imp'.errors) = Len(imp.errors) + 1
                     /\ SubSeq(imp'.errors, 1, Len(imp.errors)) = imp.errors
                     /\ imp'.errors[Len(imp'.errors)].line = n + 1
                     /\ imp'.created = imp.created /\ imp'.updated = imp.updated
                     /\ items' = items /\ tags' = tags /\ links' = links
                ELSE (IsNone(r.quantity_str) \/ r.quantity_str = <<>>)
                     => /\ imp'.errors = imp.errors
                        /\ IF had = {}
                           THEN /\ imp'.created = imp.created + 1
                                /\ \E j \in DOMAIN items' \ DOMAIN items :
                                       items'[j].quantity = 0
                           ELSE IF imp.dup_policy = "overwrite"
                           THEN \A j \in had : items'[j].quantity = 0
                           ELSE items' = items ]_vars

\* An import whose third data row was invalid: its message names line 4,
\* after a row without a quantity was stored with quantity 0.
C25_Witness ==
    /\ Running
    /\ imp.h_bad = 1
    /\ imp.h_fresh + imp.h_dup = 2
    /\ imp.skipped = 1
    /\ Len(imp.errors) = 1
    /\ imp.errors[1].line = 4
    /\ \E j \in DOMAIN items : items[j].quantity = 0

\* C26: with create_missing_tags off, a data row of the import leaves the
\* tags as they are; a valid row that is created or updated adds no message
\* and gains the association with exactly the stored tags its tags cell
\* names, whatever unknown names stand beside them.
C26_NoTagCreated ==
    [][ \A row \in RowsMixed :
          (import_csv_row(row) /\ ~imp.create_missing_tags)
          => LET r == RowFields(imp.idx, row)
                 names == SplitTags(r.tags_s)
                 known == { t \in DOMAIN tags : \E i \in DOMAIN names : names[i] = tags[t] }
                 key == NaturalKey(RowItem(r))
             IN /\ tags' = tags
                /\ (RowError(r) = "" /\ imp'.skipped = imp.skipped)
                   => /\ imp'.errors = imp.errors
                      /\ imp'.created + imp'.updated = imp.created + imp.updated + 1
                      /\ \E j \in DOMAIN items' :
                            /\ NaturalKey(items'[j]) = key
                            /\ links' = links \cup { <<j, t>> : t \in known }
                /\ (RowError(r) = "" /\ imp'.skipped # imp.skipped)
                   => /\ imp.dup_policy = "skip"
                      /\ \E j \in DOMAIN items : NaturalKey(items[j]) = key ]_vars

\* An import without create_missing_tags that associated the stored tag
\* "t" with a created item whose row also named the unknown "u".
C26_Witness ==
    /\ Running
    /\ ~imp.create_missing_tags
    /\ imp.created = 1
    /\ imp.skipped = 0
    /\ \E t \in DOMAIN tags : tags[t] = <<"t">>
    /\ \A t \in DOMAIN tags : tags[t] # <<"u">>
    /\ \E j \in DOMAIN items, t \in DOMAIN tags :
          /\ items[j].game = <<"a">>
          /\ j > imp.h_items0
          /\ <<j, t>> \in links

RECURSIVE C27_Concat(_, _)
\* The rows of pages 1..p of the listing for `qy`, one page after the other.
C27_Concat(qy, p) ==
    IF p = 0 THEN <<>>
    ELSE C27_Concat(qy, p - 1)
         \o Listing(items, tags, links, [qy EXCEPT !.page = p]).items

\* C27: for an accepted query, total is the number of matching items, no
\* page 1..total_pages holds more than `size` rows, and the pages put one
\* after the other hold every matching item once, in the order of the sort
\* (ids ascending among equal keys); the tag join gives an item one row.
C27_PagesPartition ==
    [][ ( /\ resp'.op = "items_page" /\ resp'.status = 200
          /\ items' = items /\ tags' = tags /\ links' = links )
        => LET qy == resp'.query
               matching == { j \in DOMAIN items :
                               Matches(items, tags, links, j, QueryFilters(qy)) }
               all == C27_Concat(qy, resp'.total_pages)
               col == SortColumn(qy.sort_by)
               desc == PyLower(qy.sort_dir) = <<"desc">>
           IN /\ resp'.total = Cardinality(matching)
              /\ \A p \in 1..resp'.total_pages :
                    Len(Listing(items, tags, links, [qy EXCEPT !.page = p]).items) <= qy.size
              /\ Len(all) = resp'.total
              /\ { all[n] : n \in DOMAIN all } = matching
              /\ \A n \in DOMAIN all, m \in DOMAIN all : all[n] = all[m] => n = m
              /\ \A n \in 1..(Len(all) - 1) : RowBefore(items, col, desc, all[n], all[n + 1])
              /\ resp'.items = Listing(items, tags, links, qy).items
              /\ \A j \in matching :
                    Cardinality({ t \in DOMAIN tags :
                                    tags[t] = qy.tag /\ <<j, t>> \in links }) <= 1 ]_vars

\* The second page of a listing by tag over six tagged items.
C27_Witness ==
    /\ resp.op = "items_page"
    /\ resp.status = 200
    /\ resp.query.tag = <<"t">>
    /\ resp.total = MaxPageId
    /\ resp.total_pages = 2
    /\ resp.page = 2
    /\ Len(resp.items) = 1
    /\ \A j \in DOMAIN items : \E t \in DOMAIN tags : <<j, t>> \in links

\* C29: importing the unfiltered export of a catalog back into it, under
\* policy "overwrite" with tag creation, updates one item per data row and
\* changes no item, tag or association; at the end updated is the number of
\* items and created is 0.
C29_RoundTrip ==
    [][ /\ (file # <<>> /\ Running /\ imp'.pc = "rows")
           => /\ items' = items /\ tags' = tags /\ links' = links
              /\ imp'.updated = imp.updated + 1
              /\ imp'.created = 0 /\ imp'.skipped = 0
        /\ (file # <<>> /\ Running /\ imp'.pc = "idle")
           => /\ resp'.updated = Cardinality(DOMAIN items)
              /\ resp'.created = 0 ]_vars

\* C30: the commit of a merge-add leaves the item with the quantity it had
\* just before plus the request's delta, whatever other merge-adds on the
\* item were served since the request read it.
C30_NoLostUpdate ==
    [][ \A p \in DOMAIN pending :
          merge_item_quantity_commit(p)
          => items'[pending[p].item_id].quantity
               = items[pending[p].item_id].quantity + pending[p].add_qty ]_vars

====
